---- MODULE Spec2Model ----
(***************************************************************************)
(* Build/forward lifecycle of the TensorLayer layers DropconnectDense,     *)
(* SubpixelConv1d and SubpixelConv2d over the Paddle operation adapter.    *)
(*                                                                         *)
(* One layer instance is constructed and then called repeatedly.  Tensors  *)
(* are records [shape, data] with row-major integer data; probabilities    *)
(* are held in tenths (keep = 0.5 is 5), so that 1 - keep and the          *)
(* upscale-in-train factor 1/(1-p) are exact.  A Python exception is the   *)
(* "raised" field of an operator's result; "none" means a normal return.   *)
(*                                                                         *)
(* The functions and operation classes of the adapter itself (format       *)
(* tokens, layout conversion, convolution and pooling configuration,       *)
(* batch normalisation, stubs) are exercised by a second specification,    *)
(* SpecAdapter, on the variables adapter and applied.                      *)
(***************************************************************************)
EXTENDS Integers, Sequences, FiniteSets, TLC

VARIABLES
    pc,       \* "new" | "constructed" | "ctor_failed"
    args,     \* the arguments the constructor was called with
    layer,    \* the attributes of the layer object (self)
    next_id,  \* identity of the next object allocated
    call,     \* observation of the last operation performed on the layer
    hist,     \* counters: forward calls, build invocations, completed builds
    adapter,  \* the attributes of an operation object of the Paddle adapter
    applied   \* observation of the last adapter function or object call

layer_vars == <<pc, args, layer, next_id, call, hist>>
vars == <<pc, args, layer, next_id, call, hist, adapter, applied>>

---------------------------------------------------------------------------
(* Bounds of the model *)

MaxCalls == 2       \* forward calls made on the layer
MaxRank == 3        \* rank of the tensors passed to forward (one more for images)
MaxChannels == 5    \* channel count of the tensors passed to the sub-pixel layers

DimVals == {1, 2}           \* feature count and n_units of the dense layer
ScaleVals == {1, 2}         \* scale of the sub-pixel layers

---------------------------------------------------------------------------
(* Python values *)

None == <<>>
Some(x) == <<x>>
Val(o) == o[1]

PyTuple(s) == [type |-> "tuple", v |-> s]
PyInt(n) == [type |-> "int", v |-> <<n>>]

RECURSIVE Prod(_)
Prod(s) == IF s = <<>> THEN 1 ELSE Head(s) * Prod(Tail(s))

Front(s) == SubSeq(s, 1, Len(s) - 1)
Last(s) == s[Len(s)]

\* keep as passed by the caller: a Python real number, a scalar tensor, or
\* some other object; v10 is its value in tenths
Keep(kind, v10) == [kind |-> kind, v10 |-> v10]
NoKeep == Keep("unset", 0)

\* the None batch dimension of the shape (None, in_channels)
NoneDim == 0

Tensor(shape, data) == [shape |-> shape, data |-> data]

\* the operator results: the object after the call, the exception raised,
\* the next free object identity, and whether build was entered / returned
Result(self, raised, id, entered, returned) ==
    [self |-> self, raised |-> raised, id |-> id,
     build_called |-> entered, build_returned |-> returned]

---------------------------------------------------------------------------
(* Initializers: tl.initializers over the backend's initializer functions *)

InitValue(init, i) ==
    CASE init = "zeros" -> 0
      [] init = "ones" -> 1
      [] init = "ramp" -> IF i % 2 = 1 THEN i ELSE 0 - i
      [] OTHER -> 0

\* an initializer called on a shape: truncated_normal of the Paddle backend
\* raises NotImplementedError, the others return Prod(shape) values
truncated_normal(n) == [raised |-> "NotImplementedError", data |-> <<>>]

Initializer___call__(init, n) ==
    IF init = "truncated_normal" THEN truncated_normal(n)
    ELSE [raised |-> "none", data |-> [i \in 1..n |-> InitValue(init, i)]]

\* Module._get_weights: a new Parameter from init(shape); shape is kept as passed
_get_weights(var_name, shape, init, id) ==
    LET t == Initializer___call__(init, Prod(shape.v)) IN
    IF t.raised # "none" THEN [raised |-> t.raised, obj |-> None]
    ELSE [raised |-> "none",
          obj |-> Some([id |-> id, name |-> var_name, shape |-> shape, data |-> t.data])]

\* Module.__init__: flags of a fresh layer; attributes not yet set are None
Module___init__(cls, act) ==
    [cls |-> cls, act |-> act, keep |-> NoKeep, n_units |-> 0,
     W_init |-> "", b_init |-> None, in_channels |-> None,
     scale |-> 0, n_out_channels |-> None, out_channels |-> None,
     _built |-> FALSE, _forward_state |-> FALSE, is_train |-> TRUE,
     W |-> None, b |-> None,
     dropout |-> None, matmul |-> None, bias_add |-> None,
     transpose |-> None, batch_to_space |-> None, depth_to_space |-> None]

---------------------------------------------------------------------------
(* Operation adapter objects used by the layers *)

\* Dropout.__init__: self.keep = 1 - keep, the drop probability (in tenths);
\* the variant stores the keep probability itself
Dropout_keep_unchanged(keep) == keep.v10
Dropout_keep(keep) == 10 - keep.v10

Dropout___init__(keep, id) ==
    IF keep.kind = "other"
    THEN [raised |-> "TypeError", obj |-> None]
    ELSE [raised |-> "none",
          obj |-> Some([id |-> id, cls |-> "Dropout", keep |-> Dropout_keep(keep), seed |-> 1])]

\* paddle.nn.functional.dropout(x, p, training, mode='upscale_in_train'):
\* in training the kept elements are scaled by 1/(1-p), the others zeroed
F_dropout(x, p, training, mask) ==
    IF ~training \/ p = 0 THEN x
    ELSE [i \in 1..Len(x) |->
            IF p < 10 /\ mask[i] THEN (x[i] * 10) \div (10 - p) ELSE 0]

\* Dropout.__call__: F.dropout(inputs, p=self.keep, mode='upscale_in_train'),
\* training left at its default True; F.dropout rejects p outside [0, 1]
Dropout___call__(self, inputs, mask) ==
    IF self.keep < 0 \/ self.keep > 10
    THEN [raised |-> "ValueError", out |-> <<>>]
    ELSE [raised |-> "none", out |-> F_dropout(inputs, self.keep, TRUE, mask)]

MatMul___init__(id) == Some([id |-> id, cls |-> "MatMul"])

\* MatMul.__call__: pd.matmul(a, b) for b of rank 2; leading axes of a are batch;
\* the variant returns its first argument
MatMul___call___first(a, b) == [raised |-> "none", out |-> a]
MatMul___call__(a, b) ==
    IF Len(a.shape) = 0 \/ Last(a.shape) # b.shape[1]
    THEN [raised |-> "ShapeError", out |-> Tensor(<<>>, <<>>)]
    ELSE LET c == b.shape[1]
             u == b.shape[2]
             rows == Prod(Front(a.shape))
             RECURSIVE Dot(_, _, _)
             Dot(r, j, k) == IF k = 0 THEN 0
                             ELSE a.data[(r - 1) * c + k] * b.data[(k - 1) * u + j]
                                  + Dot(r, j, k - 1)
         IN [raised |-> "none",
             out |-> Tensor(Front(a.shape) \o <<u>>,
                            [i \in 1..(rows * u) |->
                                Dot(((i - 1) \div u) + 1, ((i - 1) % u) + 1, c)])]

\* BiasAdd.__init__ with its default data_format
BiasAdd___init__(id) == Some([id |-> id, cls |-> "BiasAdd", data_format |-> "channels_last"])

\* BiasAdd.__call__ for channels_last: pd.add(x, bias), bias broadcast on the last axis
BiasAdd___call__(x, bias) ==
    LET u == Len(bias) IN
    Tensor(x.shape, [i \in 1..Len(x.data) |-> x.data[i] + bias[((i - 1) % u) + 1]])

\* ReLU.__call__
ReLU___call__(x) ==
    Tensor(x.shape, [i \in 1..Len(x.data) |-> IF x.data[i] > 0 THEN x.data[i] ELSE 0])

Transpose___init__(perm, id) == Some([id |-> id, cls |-> "Transpose", perm |-> perm])
BatchToSpace___init__(id) == Some([id |-> id, cls |-> "BatchToSpace"])
DepthToSpace___init__(id) == Some([id |-> id, cls |-> "DepthToSpace"])

---------------------------------------------------------------------------
(* DropconnectDense *)

\* the rank test of build: len(inputs_shape) != 2; the variant accepts any
\* rank of at least 2
DropconnectDense_rank_bad_atleast2(inputs_shape) == Len(inputs_shape) < 2
DropconnectDense_rank_bad(inputs_shape) == Len(inputs_shape) # 2

\* DropconnectDense.build; the statements run in order, and an exception
\* leaves the assignments made before it in place
DropconnectDense_build(self, inputs_shape, id) ==
    IF DropconnectDense_rank_bad(inputs_shape)
    THEN Result(self, "Exception", id, TRUE, FALSE)
    ELSE
    LET s1 == IF self.in_channels = None
              THEN [self EXCEPT !.in_channels = Some(inputs_shape[2])]
              ELSE self
        n_in == Last(inputs_shape)
        w == _get_weights("weights", PyTuple(<<n_in, self.n_units>>), self.W_init, id)
    IN
    IF w.raised # "none" THEN Result(s1, w.raised, id, TRUE, FALSE)
    ELSE
    LET s2 == [s1 EXCEPT !.W = w.obj]
        bias == IF self.b_init # None
                THEN _get_weights("biases", PyInt(self.n_units), Val(self.b_init), id + 1)
                ELSE [raised |-> "none", obj |-> None]
    IN
    IF bias.raised # "none" THEN Result(s2, bias.raised, id + 1, TRUE, FALSE)
    ELSE
    LET s3 == IF self.b_init # None THEN [s2 EXCEPT !.b = bias.obj] ELSE s2
        id3 == IF self.b_init # None THEN id + 2 ELSE id + 1
        d == Dropout___init__(self.keep, id3)
    IN
    IF d.raised # "none" THEN Result(s3, d.raised, id3, TRUE, FALSE)
    ELSE Result([s3 EXCEPT !.dropout = d.obj,
                           !.matmul = MatMul___init__(id3 + 1),
                           !.bias_add = BiasAdd___init__(id3 + 2)],
                "none", id3 + 3, TRUE, TRUE)

\* the keep test of the constructor: only a numbers.Real keep is tested;
\* the variant tests keep >= 0 in place of keep > 0
DropconnectDense_keep_bad_zero_ok(keep) ==
    keep.kind = "real" /\ ~(keep.v10 >= 0 /\ keep.v10 <= 10)
DropconnectDense_keep_bad(keep) ==
    keep.kind = "real" /\ ~(keep.v10 > 0 /\ keep.v10 <= 10)

\* the eager build of a constructor: build, then self._built = True
\* (the same three lines in the three layers); the variants leave _built
\* unset, or leave the build out
EagerBuild_unmarked(self, r) == r.self
EagerBuild_skipped(self, r) == self
EagerBuild(self, r) == [r.self EXCEPT !._built = TRUE]

\* DropconnectDense.__init__
DropconnectDense___init__(a, id) ==
    LET s0 == Module___init__("DropconnectDense", a.act) IN
    IF DropconnectDense_keep_bad(a.keep)
    THEN Result(s0, "ValueError", id, FALSE, FALSE)
    ELSE
    LET s1 == [s0 EXCEPT !.keep = a.keep, !.n_units = a.n_units, !.W_init = a.W_init,
                         !.b_init = a.b_init, !.in_channels = a.in_channels]
    IN
    IF s1.in_channels # None
    THEN LET r == DropconnectDense_build(s1, <<NoneDim, Val(s1.in_channels)>>, id) IN
         IF r.raised # "none" THEN r
         ELSE Result(EagerBuild(s1, r), "none", r.id, TRUE, TRUE)
    ELSE Result(s1, "none", id, FALSE, FALSE)

\* the lazy build at the head of forward (the same five lines in the three
\* layers): build on the first call of an unbuilt layer, then set the flags;
\* the variant tests _forward_state alone
NeedsBuild_ignoring_built(self) == self._forward_state = FALSE
NeedsBuild(self) == self._forward_state = FALSE /\ self._built = FALSE

\* build raised inside forward: the exception leaves forward before
\* self._built and self._forward_state are assigned; the variant has
\* _forward_state assigned before the build
LazyBuildRaised_forwarded(r) == [r EXCEPT !.self._forward_state = TRUE]
LazyBuildRaised(r) == r

DropconnectDense_lazy_build(self, inputs_shape, id) ==
    IF self._forward_state = FALSE
    THEN IF NeedsBuild(self)
         THEN LET r == DropconnectDense_build(self, inputs_shape, id) IN
              IF r.raised # "none" THEN LazyBuildRaised(r)
              ELSE Result([r.self EXCEPT !._built = TRUE, !._forward_state = TRUE],
                          "none", r.id, TRUE, TRUE)
         ELSE Result([self EXCEPT !._forward_state = TRUE], "none", id, FALSE, FALSE)
    ELSE Result(self, "none", id, FALSE, FALSE)

\* what forward leaves in self.W: the weight-drop result is a new tensor;
\* the variant writes it back into the Parameter
DropconnectDense_W_after_inplace(W, W_dropcon) == [W EXCEPT !.data = W_dropcon]
DropconnectDense_W_after(W, W_dropcon) == W

Computed(self, raised, W_dropcon, outputs) ==
    [self |-> self, raised |-> raised, W_dropcon |-> W_dropcon, outputs |-> outputs]

\* DropconnectDense.forward after the lazy build: drop weights, matmul,
\* bias_add, activation
DropconnectDense_compute(self, inputs, mask) ==
    LET W == Val(self.W)
        d == Dropout___call__(Val(self.dropout), W.data, mask)
    IN
    IF d.raised # "none" THEN Computed(self, d.raised, None, None)
    ELSE
    LET W_dropcon == Tensor(W.shape.v, d.out)
        s1 == [self EXCEPT !.W = Some(DropconnectDense_W_after(W, d.out))]
        m == MatMul___call__(inputs, W_dropcon)
    IN
    IF m.raised # "none" THEN Computed(s1, m.raised, Some(W_dropcon), None)
    ELSE
    LET o1 == IF self.b_init # None
              THEN BiasAdd___call__(m.out, Val(self.b).data)
              ELSE m.out
        o2 == IF self.act # None THEN ReLU___call__(o1) ELSE o1
    IN Computed(s1, "none", Some(W_dropcon), Some(o2))

---------------------------------------------------------------------------
(* SubpixelConv1d *)

\* SubpixelConv1d.build; inputs_shape is None in the eager build
SubpixelConv1d_build(self, inputs_shape, id) ==
    LET s1 == IF inputs_shape # None
              THEN [self EXCEPT !.in_channels = Some(Last(Val(inputs_shape)))]
              ELSE self
    IN Result([s1 EXCEPT !.out_channels = Some(Val(s1.in_channels) \div s1.scale),
                         !.transpose = Transpose___init__(<<2, 1, 0>>, id),
                         !.batch_to_space = BatchToSpace___init__(id + 1)],
              "none", id + 2, TRUE, TRUE)

\* SubpixelConv1d.__init__
SubpixelConv1d___init__(a, id) ==
    LET s0 == Module___init__("SubpixelConv1d", a.act)
        s1 == [s0 EXCEPT !.scale = a.scale, !.in_channels = a.in_channels]
    IN
    IF s1.in_channels # None
    THEN LET r == SubpixelConv1d_build(s1, None, id) IN
         IF r.raised # "none" THEN r
         ELSE Result(EagerBuild(s1, r), "none", r.id, TRUE, TRUE)
    ELSE Result(s1, "none", id, FALSE, FALSE)

SubpixelConv1d_lazy_build(self, inputs_shape, id) ==
    IF self._forward_state = FALSE
    THEN IF NeedsBuild(self)
         THEN LET r == SubpixelConv1d_build(self, Some(inputs_shape), id) IN
              IF r.raised # "none" THEN LazyBuildRaised(r)
              ELSE Result([r.self EXCEPT !._built = TRUE, !._forward_state = TRUE],
                          "none", r.id, TRUE, TRUE)
         ELSE Result([self EXCEPT !._forward_state = TRUE], "none", id, FALSE, FALSE)
    ELSE Result(self, "none", id, FALSE, FALSE)

\* SubpixelConv1d._PS: transpose with perm [2, 1, 0] needs a rank-3 tensor;
\* BatchToSpace.__call__ raises NotImplementedError
SubpixelConv1d_compute(self, inputs) ==
    IF Len(inputs.shape) # Len(Val(self.transpose).perm)
    THEN Computed(self, "ValueError", None, None)
    ELSE Computed(self, "NotImplementedError", None, None)

---------------------------------------------------------------------------
(* SubpixelConv2d *)

\* the channel test of build: self.in_channels / (self.scale**2) % 1 != 0,
\* the fractional part of the quotient; the variant accepts every count
SubpixelConv2d_channels_bad_never(in_channels, scale) == FALSE
SubpixelConv2d_channels_bad(in_channels, scale) ==
    LET q == scale * scale
    IN (in_channels - q * (in_channels \div q)) # 0

\* SubpixelConv2d.build; inputs_shape is None in the eager build
SubpixelConv2d_build(self, inputs_shape, id) ==
    LET s1 == IF inputs_shape # None
              THEN [self EXCEPT !.in_channels = Some(Last(Val(inputs_shape)))]
              ELSE self
        c == Val(s1.in_channels)
    IN
    IF SubpixelConv2d_channels_bad(c, s1.scale)
    THEN Result(s1, "Exception", id, TRUE, FALSE)
    ELSE Result([s1 EXCEPT !.n_out_channels = Some(c \div (s1.scale * s1.scale)),
                           !.depth_to_space = DepthToSpace___init__(id)],
                "none", id + 1, TRUE, TRUE)

\* SubpixelConv2d.__init__
SubpixelConv2d___init__(a, id) ==
    LET s0 == Module___init__("SubpixelConv2d", a.act)
        s1 == [s0 EXCEPT !.scale = a.scale, !.n_out_channels = a.n_out_channels,
                         !.in_channels = a.in_channels]
    IN
    IF s1.in_channels # None
    THEN LET r == SubpixelConv2d_build(s1, None, id) IN
         IF r.raised # "none" THEN r
         ELSE Result(EagerBuild(s1, r), "none", r.id, TRUE, TRUE)
    ELSE Result(s1, "none", id, FALSE, FALSE)

SubpixelConv2d_lazy_build(self, inputs_shape, id) ==
    IF self._forward_state = FALSE
    THEN IF NeedsBuild(self)
         THEN LET r == SubpixelConv2d_build(self, Some(inputs_shape), id) IN
              IF r.raised # "none" THEN LazyBuildRaised(r)
              ELSE Result([r.self EXCEPT !._built = TRUE, !._forward_state = TRUE],
                          "none", r.id, TRUE, TRUE)
         ELSE Result([self EXCEPT !._forward_state = TRUE], "none", id, FALSE, FALSE)
    ELSE Result(self, "none", id, FALSE, FALSE)

\* SubpixelConv2d._PS: the channel tests, then DepthToSpace.__call__, which
\* raises NotImplementedError
SubpixelConv2d_compute(self, inputs) ==
    LET r == self.scale
        n_out_channels == Val(self.n_out_channels)
    IN
    IF n_out_channels >= 1
    THEN IF Last(inputs.shape) # (r * r) * n_out_channels
         THEN Computed(self, "Exception", None, None)
         ELSE Computed(self, "NotImplementedError", None, None)
    ELSE Computed(self, "RuntimeError", None, None)

---------------------------------------------------------------------------
(* The layer as a state machine *)

KeepVals ==
    {Keep("real", v) : v \in {0 - 5, 0, 5, 10, 15}}
        \cup {Keep("tensor", v) : v \in {15}}
        \cup {Keep("other", 0)}

ActVals == {None, Some("ReLU")}

NoArgs ==
    [cls |-> "", keep |-> NoKeep, n_units |-> 0, act |-> None, W_init |-> "",
     b_init |-> None, in_channels |-> None, scale |-> 0, n_out_channels |-> None]

DenseArgs ==
    {[NoArgs EXCEPT !.cls = "DropconnectDense", !.keep = k, !.n_units = u, !.act = a,
                    !.W_init = w, !.b_init = b, !.in_channels = c] :
        k \in KeepVals, u \in DimVals, a \in ActVals,
        w \in {"truncated_normal", "ramp"}, b \in {None, Some("ones")},
        c \in {None} \cup {Some(d) : d \in DimVals}}

Subpixel1dArgs ==
    {[NoArgs EXCEPT !.cls = "SubpixelConv1d", !.scale = sc, !.act = a, !.in_channels = c] :
        sc \in ScaleVals, a \in ActVals,
        c \in {None} \cup {Some(d) : d \in 0..MaxChannels}}

Subpixel2dArgs ==
    {[NoArgs EXCEPT !.cls = "SubpixelConv2d", !.scale = sc, !.act = a,
                    !.n_out_channels = n, !.in_channels = c] :
        sc \in ScaleVals, a \in ActVals, n \in {None, Some(1)},
        c \in {None} \cup {Some(d) : d \in 0..MaxChannels}}

\* an input tensor of the given rank: batch n, channels c last, the axes
\* between of size mid; its data is 1, 2, 3, ...
Input(rank, n, mid, c) ==
    LET shape == [i \in 1..rank |-> IF i = rank THEN c ELSE IF i = 1 THEN n ELSE mid]
    IN Tensor(shape, [i \in 1..Prod(shape) |-> i])

Call(op, shape, raised, pre_built, r, W_dropcon, outputs) ==
    [op |-> op, shape |-> shape, raised |-> raised, pre_built |-> pre_built,
     build_called |-> r.build_called, build_returned |-> r.build_returned,
     W_dropcon |-> W_dropcon, outputs |-> outputs]

NoBuild == Result(None, "none", 0, FALSE, FALSE)

Count(b) == IF b THEN 1 ELSE 0

Init ==
    /\ pc = "new"
    /\ args = NoArgs
    /\ layer = Module___init__("", None)
    /\ next_id = 1
    /\ call = Call("none", <<>>, "none", FALSE, NoBuild, None, None)
    /\ hist = [n_forward |-> 0, build_calls |-> 0, build_done |-> 0]
    /\ adapter = None
    /\ applied = None

\* a constructor call: the layer exists when it returns normally
Constructed(a, r) ==
    /\ pc' = IF r.raised = "none" THEN "constructed" ELSE "ctor_failed"
    /\ args' = a
    /\ layer' = r.self
    /\ next_id' = r.id
    /\ call' = Call("__init__", <<>>, r.raised, FALSE, r, None, None)
    /\ hist' = [n_forward |-> 0, build_calls |-> Count(r.build_called),
                build_done |-> Count(r.build_returned)]
    /\ UNCHANGED <<adapter, applied>>

ConstructDropconnectDense ==
    /\ pc = "new"
    /\ \E a \in DenseArgs : Constructed(a, DropconnectDense___init__(a, next_id))

ConstructSubpixelConv1d ==
    /\ pc = "new"
    /\ \E a \in Subpixel1dArgs : Constructed(a, SubpixelConv1d___init__(a, next_id))

ConstructSubpixelConv2d ==
    /\ pc = "new"
    /\ \E a \in Subpixel2dArgs : Constructed(a, SubpixelConv2d___init__(a, next_id))

\* a forward call: lb is the result of the lazy build, f of the computation
\* that follows it when the build did not raise
Forwarded(inputs, lb, f) ==
    /\ layer' = f.self
    /\ next_id' = lb.id
    /\ call' = Call("forward", inputs.shape, f.raised, layer._built, lb,
                    f.W_dropcon, f.outputs)
    /\ hist' = [n_forward |-> hist.n_forward + 1,
                build_calls |-> hist.build_calls + Count(lb.build_called),
                build_done |-> hist.build_done + Count(lb.build_returned)]
    /\ UNCHANGED <<pc, args>>
    /\ UNCHANGED <<adapter, applied>>

\* the masks the random generator of dropout can draw for n weights
Masks(self, n) ==
    IF Val(self.dropout).keep \in 1..9
    THEN [1..n -> BOOLEAN]
    ELSE {[i \in 1..n |-> TRUE]}

ForwardDropconnectDense ==
    /\ pc = "constructed"
    /\ layer.cls = "DropconnectDense"
    /\ hist.n_forward < MaxCalls
    /\ \E rank \in 1..MaxRank, c \in DimVals :
         LET inputs == Input(rank, 2, c, c)
             lb == DropconnectDense_lazy_build(layer, inputs.shape, next_id)
         IN IF lb.raised # "none"
            THEN Forwarded(inputs, lb, Computed(lb.self, lb.raised, None, None))
            ELSE \E mask \in Masks(lb.self, Len(Val(lb.self.W).data)) :
                    Forwarded(inputs, lb, DropconnectDense_compute(lb.self, inputs, mask))

ForwardSubpixelConv1d ==
    /\ pc = "constructed"
    /\ layer.cls = "SubpixelConv1d"
    /\ hist.n_forward < MaxCalls
    /\ \E rank \in 1..MaxRank, c \in 0..MaxChannels :
         LET inputs == Input(rank, 1, 2, c)
             lb == SubpixelConv1d_lazy_build(layer, inputs.shape, next_id)
         IN IF lb.raised # "none"
            THEN Forwarded(inputs, lb, Computed(lb.self, lb.raised, None, None))
            ELSE Forwarded(inputs, lb, SubpixelConv1d_compute(lb.self, inputs))

ForwardSubpixelConv2d ==
    /\ pc = "constructed"
    /\ layer.cls = "SubpixelConv2d"
    /\ hist.n_forward < MaxCalls
    /\ \E rank \in 1..(MaxRank + 1), c \in 0..MaxChannels :
         LET inputs == Input(rank, 1, 2, c)
             lb == SubpixelConv2d_lazy_build(layer, inputs.shape, next_id)
         IN IF lb.raised # "none"
            THEN Forwarded(inputs, lb, Computed(lb.self, lb.raised, None, None))
            ELSE Forwarded(inputs, lb, SubpixelConv2d_compute(lb.self, inputs))

\* Module.set_train / Module.set_eval: the training-mode flag of the layer
set_mode(is_train) ==
    /\ pc = "constructed"
    /\ layer.is_train # is_train
    /\ layer' = [layer EXCEPT !.is_train = is_train]
    /\ call' = Call(IF is_train THEN "set_train" ELSE "set_eval", <<>>, "none",
                    layer._built, NoBuild, None, None)
    /\ UNCHANGED <<pc, args, next_id, hist>>
    /\ UNCHANGED <<adapter, applied>>

set_train == set_mode(TRUE)
set_eval == set_mode(FALSE)

Next ==
    \/ ConstructDropconnectDense
    \/ ConstructSubpixelConv1d
    \/ ConstructSubpixelConv2d
    \/ ForwardDropconnectDense
    \/ ForwardSubpixelConv1d
    \/ ForwardSubpixelConv2d
    \/ set_train
    \/ set_eval

Spec == Init /\ [][Next]_vars

---------------------------------------------------------------------------
(* Properties of the lifecycle *)

IsDense == layer.cls = "DropconnectDense"
ForwardStep == hist'.n_forward = hist.n_forward + 1

\* the input tensor of the last forward call
LastInputs == Tensor(call.shape, [i \in 1..Prod(call.shape) |-> i])

(* C1: over any sequence of forward calls build completes at most once, a
   built layer has completed it exactly once and build is not entered again,
   and _built, once true, is never reset. *)
C1_BuildOnceBuiltMonotonic ==
    [][/\ layer._built => layer'._built
       /\ hist'.build_done <= 1
       /\ layer'._built => hist'.build_done = 1
       /\ layer._built => hist'.build_calls = hist.build_calls]_vars

C1_Witness ==
    /\ pc = "constructed"
    /\ args.in_channels = None
    /\ layer._built
    /\ hist.n_forward = 2
    /\ hist.build_done = 1

(* C2: a layer constructed with in_channels not None is built when the
   constructor returns and no forward call enters build; one constructed with
   in_channels None is unbuilt until a forward call, which enters build with
   the observed input shape and, when build returns, leaves the layer built
   with in_channels taken from that shape. *)
C2_EagerOrLazyBuild ==
    pc = "constructed" =>
        /\ args.in_channels # None =>
             /\ layer._built
             /\ hist.build_calls = 1
             /\ hist.build_done = 1
             /\ call.op = "forward" => ~call.build_called
        /\ args.in_channels = None =>
             /\ hist.n_forward = 0 => ~layer._built /\ hist.build_calls = 0
             /\ (call.op = "forward" /\ ~call.pre_built) =>
                  /\ call.build_called
                  /\ call.build_returned =>
                       /\ layer._built
                       /\ layer.in_channels = Some(Last(call.shape))

C2_Witness ==
    /\ pc = "constructed"
    /\ args.in_channels = None
    /\ hist.n_forward = 1
    /\ call.op = "forward"
    /\ call.build_returned
    /\ layer._built

\* identities of the Parameters and cached operations of a built dense layer
ObjectIds(self) ==
    <<self.W, self.b, self.dropout, self.matmul, self.bias_add>>

Ids(objs) == [i \in 1..Len(objs) |-> IF objs[i] = None THEN 0 ELSE Val(objs[i]).id]

(* C3: a forward call on a built DropconnectDense leaves the identity of
   W, b, dropout, matmul and bias_add unchanged. *)
C3_NoReallocationAfterBuild ==
    [][(pc = "constructed" /\ IsDense /\ layer._built)
          => Ids(ObjectIds(layer')) = Ids(ObjectIds(layer))]_vars

C3_Witness ==
    /\ pc = "constructed"
    /\ IsDense
    /\ call.op = "forward"
    /\ call.pre_built
    /\ hist.n_forward = 2
    /\ layer.b # None

(* C4: a built DropconnectDense with input channels c and n_units u holds a
   weight of shape (c, u) and, when a bias initializer was supplied, a bias
   whose shape is the 1-tuple (u,); without a bias initializer it holds no
   bias. *)
C4_ParameterShapes ==
    (pc = "constructed" /\ IsDense /\ layer._built) =>
        /\ Val(layer.W).shape = PyTuple(<<Val(layer.in_channels), layer.n_units>>)
        /\ args.b_init # None =>
             /\ layer.b # None
             /\ Val(layer.b).shape = PyTuple(<<layer.n_units>>)
        /\ args.b_init = None => layer.b = None

(* C5: a forward call that enters DropconnectDense.build with an input whose
   rank is not 2 raises, allocates nothing, attaches no Parameter and leaves
   the layer unbuilt. *)
C5_RankViolation ==
    [][(IsDense /\ ForwardStep /\ call'.build_called /\ Len(call'.shape) # 2)
          => /\ call'.raised = "Exception"
             /\ ~call'.build_returned
             /\ next_id' = next_id
             /\ layer'.W = layer.W
             /\ layer'.b = layer.b
             /\ ~layer'._built]_vars

C5_Witness ==
    /\ IsDense
    /\ call.op = "forward"
    /\ Len(call.shape) = 3
    /\ call.build_called
    /\ call.raised = "Exception"
    /\ ~layer._built

InUnitInterval(keep) == keep.v10 > 0 /\ keep.v10 <= 10

(* C6 as stated: every DropconnectDense that was constructed has a keep value
   inside (0, 1]. *)
C6_AnyKeepOutsideRejected ==
    (pc = "constructed" /\ IsDense /\ args.keep.kind \in {"real", "tensor"})
        => InUnitInterval(args.keep)

(* C6 amended: a keep that is a real number outside (0, 1] makes the
   constructor raise ValueError before build is entered; a real number inside
   (0, 1] is never rejected for its value; a keep that is not a real number
   (a scalar tensor, say) is not range-checked by the constructor. *)
C6_RealKeepOutsideRejected ==
    (pc # "new" /\ args.cls = "DropconnectDense") =>
        /\ (args.keep.kind = "real" /\ ~InUnitInterval(args.keep)) =>
             /\ pc = "ctor_failed"
             /\ call.raised = "ValueError"
             /\ hist.build_calls = 0
             /\ layer.W = None
        /\ (args.keep.kind = "real" /\ InUnitInterval(args.keep)) =>
             (pc = "ctor_failed" => call.raised # "ValueError")
        /\ args.keep.kind # "real" =>
             (pc = "ctor_failed" => call.raised # "ValueError")

C6_Witness ==
    /\ pc = "ctor_failed"
    /\ args.cls = "DropconnectDense"
    /\ args.keep = Keep("real", 15)
    /\ call.raised = "ValueError"

(* C7: in a forward call made while the layer is not in training mode the
   weight passed to matmul is the stored weight, element for element. *)
C7_IdentityWhenNotTraining ==
    (IsDense /\ call.op = "forward" /\ ~layer.is_train /\ call.W_dropcon # None)
        => Val(call.W_dropcon).data = Val(layer.W).data

\* the dense layer without connection dropping: matmul, bias_add, activation
DenseWithoutDrop(self, inputs) ==
    LET W == Val(self.W)
        m == MatMul___call__(inputs, Tensor(W.shape.v, W.data)).out
        o1 == IF self.b_init # None THEN BiasAdd___call__(m, Val(self.b).data) ELSE m
    IN IF self.act # None THEN ReLU___call__(o1) ELSE o1

(* C8: with keep = 1.0 the Dropout operator holds drop probability 0, the
   weight passed to matmul equals the stored weight, and the output equals
   that of the layer without connection dropping. *)
C8_KeepOneIsPlainDense ==
    (IsDense /\ call.op = "forward" /\ args.keep = Keep("real", 10)
        /\ call.W_dropcon # None) =>
        /\ Val(layer.dropout).keep = 0
        /\ Val(call.W_dropcon).data = Val(layer.W).data
        /\ call.outputs # None => Val(call.outputs) = DenseWithoutDrop(layer, LastInputs)

C8_Witness ==
    /\ IsDense
    /\ call.op = "forward"
    /\ args.keep = Keep("real", 10)
    /\ call.outputs # None
    /\ Len(Val(layer.W).data) = 4

(* C9: a forward call on a built DropconnectDense leaves self.W and self.b
   holding the values they held before the call. *)
C9_ForwardKeepsWeights ==
    [][(pc = "constructed" /\ IsDense /\ layer._built /\ ForwardStep)
          => /\ Val(layer'.W).data = Val(layer.W).data
             /\ layer'.b = layer.b]_vars

C9_Witness ==
    /\ IsDense
    /\ call.op = "forward"
    /\ call.pre_built
    /\ call.W_dropcon # None
    /\ Val(call.W_dropcon).data # Val(layer.W).data

(* C10: a forward call whose build raises leaves every attribute of the
   layer as it was before the call. *)
C10_BuildAllOrNothing ==
    [][(pc = "constructed" /\ ForwardStep /\ call'.build_called /\ ~call'.build_returned)
          => layer' = layer]_vars

---------------------------------------------------------------------------
(* The Paddle adapter: layout conversion (paddle_nn.py)                    *)

MaxAdapterRank == 6     \* rank of the tensors passed to the adapter functions

\* the result of an adapter function: the exception raised and the value
\* returned (None when nothing is returned)
Returned(out) == [raised |-> "none", out |-> out]
Raised(exc) == [raised |-> exc, out |-> None]

\* row-major addressing: the number of elements one step along an axis
\* skips, the 0-based coordinate of the k-th element on an axis, and the
\* 0-based offset of a coordinate vector
Skip(shape, axis) == Prod(SubSeq(shape, axis + 1, Len(shape)))
Coord(k, shape, axis) == ((k - 1) \div Skip(shape, axis)) % shape[axis]

RECURSIVE Offset(_, _, _)
Offset(coords, shape, axis) ==
    IF axis > Len(shape) THEN 0
    ELSE coords[axis] * Skip(shape, axis) + Offset(coords, shape, axis + 1)

\* pd.transpose(x, perm): axis i of the result is axis perm[i] of x (perm is
\* 0-based, as in the source)
pd_transpose(x, perm) ==
    LET n == Len(perm)
        shape == [i \in 1..n |-> x.shape[perm[i] + 1]]
        from(k) ==
            LET c == [a \in 1..n |->
                        Coord(k, shape, CHOOSE i \in 1..n : perm[i] + 1 = a)]
            IN 1 + Offset(c, x.shape, 1)
    IN Tensor(shape, [k \in 1..Prod(shape) |-> x.data[from(k)]])

\* the permutation nchw_to_nhwc picks for a rank, None where it raises
nchw_to_nhwc_perm_channels_first(rank) ==
    IF rank = 3 THEN Some(<<0, 2, 1>>)
    ELSE IF rank = 4 THEN Some(<<0, 3, 1, 2>>)
    ELSE IF rank = 5 THEN Some(<<0, 4, 1, 2, 3>>)
    ELSE None
nchw_to_nhwc_perm(rank) ==
    IF rank = 3 THEN Some(<<0, 2, 1>>)
    ELSE IF rank = 4 THEN Some(<<0, 2, 3, 1>>)
    ELSE IF rank = 5 THEN Some(<<0, 2, 3, 4, 1>>)
    ELSE None

nchw_to_nhwc(x) ==
    LET perm == nchw_to_nhwc_perm(Len(x.shape))
    IN IF perm = None THEN Raised("Exception")
       ELSE Returned(Some(pd_transpose(x, Val(perm))))

\* the permutation nhwc_to_nchw picks for a rank, None where it raises
nhwc_to_nchw_perm_rank2(rank) ==
    IF rank = 2 THEN Some(<<0, 1>>)
    ELSE IF rank = 3 THEN Some(<<0, 2, 1>>)
    ELSE IF rank = 4 THEN Some(<<0, 3, 1, 2>>)
    ELSE IF rank = 5 THEN Some(<<0, 4, 1, 2, 3>>)
    ELSE None
nhwc_to_nchw_perm(rank) ==
    IF rank = 3 THEN Some(<<0, 2, 1>>)
    ELSE IF rank = 4 THEN Some(<<0, 3, 1, 2>>)
    ELSE IF rank = 5 THEN Some(<<0, 4, 1, 2, 3>>)
    ELSE None

nhwc_to_nchw(x) ==
    LET perm == nhwc_to_nchw_perm(Len(x.shape))
    IN IF perm = None THEN Raised("Exception")
       ELSE Returned(Some(pd_transpose(x, Val(perm))))

---------------------------------------------------------------------------
(* The Paddle adapter: padding and data-format tokens (paddle_nn.py).  A   *)
(* string argument s is Some(s), a None argument is None.                  *)

padding_format(padding) ==
    IF padding \in {Some("SAME"), Some("same")} THEN Returned(Some("SAME"))
    ELSE IF padding \in {Some("VALID"), Some("valid")} THEN Returned(Some("VALID"))
    ELSE IF padding = None THEN Returned(None)
    ELSE Raised("Exception")

\* the pair (data_format, padding) the preprocess functions return, once
\* the data format is settled: padding_format may still raise
FormatAndPadding(data_format, padding) ==
    LET p == padding_format(padding)
    IN IF p.raised # "none" THEN Raised(p.raised)
       ELSE Returned(Some([data_format |-> data_format, padding |-> p.out]))

preprocess_1d_format(data_format, padding) ==
    IF data_format \in {Some("channels_last"), Some("NWC"), Some("NLC")}
    THEN FormatAndPadding(Some("NLC"), padding)
    ELSE IF data_format \in {Some("channels_first"), Some("NCW"), Some("NCL")}
    THEN FormatAndPadding(Some("NCL"), padding)
    ELSE IF data_format = None THEN FormatAndPadding(None, padding)
    ELSE Raised("Exception")

preprocess_2d_format(data_format, padding) ==
    IF data_format \in {Some("channels_last"), Some("NHWC"), Some("nhwc")}
    THEN FormatAndPadding(Some("NHWC"), padding)
    ELSE IF data_format \in {Some("channels_first"), Some("NCHW"), Some("nchw")}
    THEN FormatAndPadding(Some("NCHW"), padding)
    ELSE IF data_format = None THEN FormatAndPadding(None, padding)
    ELSE Raised("Exception")

preprocess_3d_format(data_format, padding) ==
    IF data_format \in {Some("channels_last"), Some("NDHWC")}
    THEN FormatAndPadding(Some("NDHWC"), padding)
    ELSE IF data_format \in {Some("channels_first"), Some("NCDHW")}
    THEN FormatAndPadding(Some("NCDHW"), padding)
    ELSE IF data_format = None THEN FormatAndPadding(None, padding)
    ELSE Raised("Exception")

---------------------------------------------------------------------------
(* The Paddle adapter: convolution (paddle_nn.py).  A sequence argument s  *)
(* is Some(s); an attribute that was never assigned is Unset.              *)

Unset == <<>>

\* (s[first], ..., s[first + k - 1]) of a Python sequence, 0-based: None is
\* not subscriptable, an index past the end is an IndexError
Subscripts(s, first, k) ==
    IF s = None THEN Raised("TypeError")
    ELSE IF first + k > Len(Val(s)) THEN Raised("IndexError")
    ELSE Returned(Some(SubSeq(Val(s), first + 1, first + k)))

\* the spatial stride and dilation read at an offset, stride first
SpatialOf(strides, dilations, first, k) ==
    LET s == Subscripts(strides, first, k)
        d == Subscripts(dilations, first, k)
    IN IF s.raised # "none" THEN Raised(s.raised)
       ELSE IF d.raised # "none" THEN Raised(d.raised)
       ELSE Returned(Some([stride |-> s.out, dilation |-> d.out]))

\* a is b: the same object.  The string constants of the module are one
\* object each; a string the caller passes is the same object as an equal
\* constant only if the interpreter interned it
Is(a, b, same_object) == a = b /\ same_object

\* the call of a convolution or pooling primitive of paddle.nn.functional:
\* what it is given (a kernel_size for pooling, a dilation for convolution)
F_primitive(primitive, kernel_size, stride, dilation, padding, data_format) ==
    [primitive |-> primitive, kernel_size |-> kernel_size, stride |-> stride,
     dilation |-> dilation, padding |-> padding, data_format |-> data_format]

Conv2D___init__(strides, padding, data_format, dilations) ==
    LET f == preprocess_2d_format(data_format, padding)
    IN IF f.raised # "none" THEN Raised(f.raised)
       ELSE
         LET self == [cls |-> "Conv2D", data_format |-> Val(f.out).data_format,
                      padding |-> Val(f.out).padding,
                      _stride |-> Unset, _dilation |-> Unset]
             first == IF Is(self.data_format, Some("NHWC"), TRUE) THEN Some(1)
                      ELSE IF Is(self.data_format, Some("NCHW"), TRUE) THEN Some(2)
                      ELSE None
         IN IF first = None THEN Returned(Some(self))
            ELSE LET sp == SpatialOf(strides, dilations, Val(first), 2)
                 IN IF sp.raised # "none" THEN Raised(sp.raised)
                    ELSE Returned(Some([self EXCEPT !._stride = Val(sp.out).stride,
                                                    !._dilation = Val(sp.out).dilation]))

Conv2D___call__(self) ==
    IF self._stride = Unset \/ self._dilation = Unset THEN Raised("AttributeError")
    ELSE Returned(Some(F_primitive("conv2d", None, self._stride, self._dilation,
                                   self.padding, self.data_format)))

conv2d(strides, padding, data_format, dilations) ==
    LET f == preprocess_2d_format(data_format, padding)
    IN IF f.raised # "none" THEN Raised(f.raised)
       ELSE
         LET fmt == Val(f.out).data_format
             first == IF Is(fmt, Some("NHWC"), TRUE) THEN Some(1)
                      ELSE IF Is(fmt, Some("NCHW"), TRUE) THEN Some(2)
                      ELSE None
         IN IF first = None THEN Raised("UnboundLocalError")
            ELSE LET sp == SpatialOf(strides, dilations, Val(first), 2)
                 IN IF sp.raised # "none" THEN Raised(sp.raised)
                    ELSE Returned(Some(F_primitive("conv2d", None, Val(sp.out).stride,
                                                   Val(sp.out).dilation,
                                                   Val(f.out).padding, fmt)))

\* Conv3D.__init__ tests the data_format argument itself, not
\* self.data_format; interned tells whether that string is the object of an
\* equal constant
Conv3D___init__(strides, padding, data_format, dilations, interned) ==
    LET f == preprocess_3d_format(data_format, padding)
    IN IF f.raised # "none" THEN Raised(f.raised)
       ELSE
         LET self == [cls |-> "Conv3D", data_format |-> Val(f.out).data_format,
                      padding |-> Val(f.out).padding,
                      _strides |-> Unset, _dilations |-> Unset]
             first == IF Is(data_format, Some("NDHWC"), interned) THEN Some(1)
                      ELSE IF Is(data_format, Some("NCDHW"), interned) THEN Some(2)
                      ELSE None
         IN IF first = None THEN Returned(Some(self))
            ELSE LET sp == SpatialOf(strides, dilations, Val(first), 3)
                 IN IF sp.raised # "none" THEN Raised(sp.raised)
                    ELSE Returned(Some([self EXCEPT !._strides = Val(sp.out).stride,
                                                    !._dilations = Val(sp.out).dilation]))

Conv3D___call__(self) ==
    IF self._strides = Unset \/ self._dilations = Unset THEN Raised("AttributeError")
    ELSE Returned(Some(F_primitive("conv3d", None, self._strides, self._dilations,
                                   self.padding, self.data_format)))

conv3d(strides, padding, data_format, dilations) ==
    LET f == preprocess_3d_format(data_format, padding)
    IN IF f.raised # "none" THEN Raised(f.raised)
       ELSE
         LET fmt == Val(f.out).data_format
             first == IF Is(fmt, Some("NDHWC"), TRUE) THEN Some(1)
                      ELSE IF Is(fmt, Some("NCDHW"), TRUE) THEN Some(2)
                      ELSE None
         IN IF first = None THEN Raised("UnboundLocalError")
            ELSE LET sp == SpatialOf(strides, dilations, Val(first), 3)
                 IN IF sp.raised # "none" THEN Raised(sp.raised)
                    ELSE Returned(Some(F_primitive("conv3d", None, Val(sp.out).stride,
                                                   Val(sp.out).dilation,
                                                   Val(f.out).padding, fmt)))

---------------------------------------------------------------------------
(* The Paddle adapter: pooling (paddle_nn.py) *)

MaxPool___init__(ksize, strides, padding, data_format) ==
    LET f == preprocess_2d_format(data_format, padding)
    IN IF f.raised # "none" THEN Raised(f.raised)
       ELSE
         LET self == [cls |-> "MaxPool", data_format |-> Val(f.out).data_format,
                      padding |-> Val(f.out).padding, ksize |-> ksize, _stride |-> Unset]
             first == IF Is(self.data_format, Some("NHWC"), TRUE) THEN Some(1)
                      ELSE IF Is(self.data_format, Some("NCHW"), TRUE) THEN Some(2)
                      ELSE None
         IN IF first = None THEN Returned(Some(self))
            ELSE LET s == Subscripts(strides, Val(first), 2)
                 IN IF s.raised # "none" THEN Raised(s.raised)
                    ELSE Returned(Some([self EXCEPT !._stride = s.out]))

MaxPool___call__(self) ==
    IF self._stride = Unset THEN Raised("AttributeError")
    ELSE Returned(Some(F_primitive("max_pool2d", self.ksize, self._stride, None, self.padding,
                              self.data_format)))

AvgPool___init__(ksize, strides, padding, data_format) ==
    LET f == preprocess_2d_format(data_format, padding)
    IN IF f.raised # "none" THEN Raised(f.raised)
       ELSE
         LET self == [cls |-> "AvgPool", data_format |-> Val(f.out).data_format,
                      padding |-> Val(f.out).padding, filter_size |-> ksize,
                      _stride |-> Unset]
             first == IF Is(self.data_format, Some("NHWC"), TRUE) THEN Some(1)
                      ELSE IF Is(self.data_format, Some("NCHW"), TRUE) THEN Some(2)
                      ELSE None
         IN IF first = None THEN Returned(Some(self))
            ELSE LET s == Subscripts(strides, Val(first), 2)
                 IN IF s.raised # "none" THEN Raised(s.raised)
                    ELSE Returned(Some([self EXCEPT !._stride = s.out]))

AvgPool___call__(self) ==
    IF self._stride = Unset THEN Raised("AttributeError")
    ELSE Returned(Some(F_primitive("avg_pool2d", self.filter_size, self._stride, None, self.padding,
                              self.data_format)))

\* MaxPool3d.__init__ and AvgPool3d.__init__: the same body
Pool3d___init__(cls, ksize, strides, padding, data_format) ==
    LET f == preprocess_3d_format(data_format, padding)
    IN IF f.raised # "none" THEN Raised(f.raised)
       ELSE
         LET self == [cls |-> cls, data_format |-> Val(f.out).data_format,
                      padding |-> Val(f.out).padding, ksize |-> ksize, strides |-> Unset]
             first == IF self.data_format = Some("NCDHW") THEN Some(2)
                      ELSE IF self.data_format = Some("NDHWC") THEN Some(1)
                      ELSE None
         IN IF first = None THEN Returned(Some(self))
            ELSE LET s == Subscripts(strides, Val(first), 3)
                 IN IF s.raised # "none" THEN Raised(s.raised)
                    ELSE Returned(Some([self EXCEPT !.strides = s.out]))

MaxPool3d___call__(self) ==
    IF self.strides = Unset THEN Raised("AttributeError")
    ELSE Returned(Some(F_primitive("max_pool3d", self.ksize, self.strides, None, self.padding,
                              self.data_format)))

AvgPool3d___call__(self) ==
    IF self.strides = Unset THEN Raised("AttributeError")
    ELSE Returned(Some(F_primitive("avg_pool3d", self.ksize, self.strides, None, self.padding,
                              self.data_format)))

---------------------------------------------------------------------------
(* The Paddle adapter: adaptive pooling (paddle_nn.py) *)

\* the input positions (0-based) that output position o of an axis pools,
\* for an axis of size n pooled to size m
Window(o, n, m) == ((o * n) \div m) .. ((((o + 1) * n + m - 1) \div m) - 1)

\* an adaptive pooling primitive of paddle.nn.functional: the spatial axes
\* (all but batch and channel) are pooled to output_size; an element of the
\* result is the primitive applied to the input elements of its window
F_adaptive_pool(primitive, x, output_size, channels_last) ==
    LET rank == Len(x.shape)
        spatial(a) == IF channels_last THEN a \in 2..rank - 1 ELSE a \in 3..rank
        shape == [a \in 1..rank |-> IF spatial(a) THEN output_size ELSE x.shape[a]]
        window(k) ==
            {j \in 1..Prod(x.shape) :
                \A a \in 1..rank :
                    IF spatial(a)
                    THEN Coord(j, x.shape, a) \in Window(Coord(k, shape, a), x.shape[a], output_size)
                    ELSE Coord(j, x.shape, a) = Coord(k, shape, a)}
    IN Tensor(shape, [k \in 1..Prod(shape) |->
                        [pooled |-> primitive, of |-> {x.data[j] : j \in window(k)}]])

\* what a call did: the conversions and primitives in order, and the output
Done(steps, output) == [steps |-> steps, output |-> output]

\* the conversion of the input before the primitive, when the object is
\* configured with the channels-last token of its rank
ToChannelsFirst(self, token, input) ==
    IF self.data_format = Some(token)
    THEN LET c == nhwc_to_nchw(input)
         IN IF c.raised # "none" THEN Raised(c.raised)
            ELSE Returned(Some(Done(<<"nhwc_to_nchw">>, Val(c.out))))
    ELSE Returned(Some(Done(<<>>, input)))

\* the conversion of the output after the primitive
BackToChannelsLast_omitted(self, token, output) ==
    Returned(Some(Done(<<>>, output)))
BackToChannelsLast(self, token, output) ==
    IF self.data_format = Some(token)
    THEN LET c == nchw_to_nhwc(output)
         IN IF c.raised # "none" THEN Raised(c.raised)
            ELSE Returned(Some(Done(<<"nchw_to_nhwc">>, Val(c.out))))
    ELSE Returned(Some(Done(<<>>, output)))

\* AdaptiveMeanPool1D.__call__ and AdaptiveMaxPool1D/2D/3D.__call__: the
\* operators that convert around a channels-first primitive
ConvertPoolConvert(self, token, primitive, input) ==
    LET a == ToChannelsFirst(self, token, input)
    IN IF a.raised # "none" THEN Raised(a.raised)
       ELSE LET output == F_adaptive_pool(primitive, Val(a.out).output,
                                          self.output_size, FALSE)
                b == BackToChannelsLast(self, token, output)
            IN IF b.raised # "none" THEN Raised(b.raised)
               ELSE Returned(Some(Done(Val(a.out).steps \o <<primitive>> \o Val(b.out).steps,
                                       Val(b.out).output)))

\* AdaptiveMeanPool2D.__call__ and AdaptiveMeanPool3D.__call__: the operators
\* that hand their data_format to the primitive, which refuses a data_format
\* that is neither of its two tokens
PoolWithDataFormat(self, last, first, primitive, inputs) ==
    IF self.data_format \notin {Some(last), Some(first)} THEN Raised("ValueError")
    ELSE Returned(Some(Done(<<primitive>>,
                            F_adaptive_pool(primitive, inputs, self.output_size,
                                            self.data_format = Some(last)))))

\* the six constructors: the data format, normalised with a padding of None
\* by the preprocess function of the rank (its result is f), and output_size
AdaptivePool___init__(cls, f, output_size) ==
    IF f.raised # "none" THEN Raised(f.raised)
    ELSE Returned(Some([cls |-> cls, data_format |-> Val(f.out).data_format,
                        output_size |-> output_size]))

---------------------------------------------------------------------------
(* The Paddle adapter: batch normalisation (paddle_nn.py) *)

\* data_format is kept as given, without normalisation
BatchNorm___init__(data_format) ==
    Returned(Some([cls |-> "BatchNorm", data_format |-> data_format]))

\* BatchNorm.channel_format: the function ends without a return statement
\* when no test matches, which returns None
channel_format(self, inputs) ==
    LET len_in_shape == Len(inputs.shape)
    IN IF len_in_shape = 2 THEN Some("NC")
       ELSE IF self.data_format = Some("channels_last") /\ len_in_shape = 3 THEN Some("NLC")
       ELSE IF self.data_format = Some("channels_last") /\ len_in_shape = 4 THEN Some("NHWC")
       ELSE IF self.data_format = Some("channels_last") /\ len_in_shape = 5 THEN Some("NDHWC")
       ELSE IF self.data_format = Some("channels_first") /\ len_in_shape = 3 THEN Some("NCL")
       ELSE IF self.data_format = Some("channels_first") /\ len_in_shape = 4 THEN Some("NCHW")
       ELSE IF self.data_format = Some("channels_first") /\ len_in_shape = 5 THEN Some("NCDHW")
       ELSE None

\* BatchNorm.__call__: the normalisation primitive is given the result of
\* channel_format as its data_format
BatchNorm___call__(self, inputs) ==
    Returned(Some([primitive |-> "batch_norm",
                   data_format |-> channel_format(self, inputs)]))

---------------------------------------------------------------------------
(* The Paddle adapter: operations without an implementation                *)
(* (paddle_nn.py, paddle_backend.py)                                       *)

\* the functions and __call__ methods whose body is the statement pass
PassBodies ==
    {"lrn", "moments", "max_pool", "avg_pool", "max_pool3d", "avg_pool3d", "pool",
     "depthwise_conv2d", "EmbeddingLookup.__call__", "NCELoss.__call__",
     "NotEqual.__call__", "CountNonzero.__call__"}

\* those whose body is raise NotImplementedError
RaiseBodies ==
    {"DepthwiseConv2d.__call__", "GroupConv2D.__call__", "SeparableConv1D.__call__",
     "SeparableConv2D.__call__", "BinaryConv2D.__call__", "DorefaConv2D.__call__",
     "random_uniform", "random_normal", "truncated_normal", "he_normal", "Variable",
     "matmul", "add", "dtypes", "Maximum.__call__", "Minimum.__call__", "minimum",
     "Resize.__call__", "resize", "ZeroPadding1D.__call__", "ZeroPadding2D.__call__",
     "ZeroPadding3D.__call__", "Sign.__call__", "Ceil.__call__", "ceil", "multiply",
     "divide", "identity", "BatchToSpace.__call__", "DepthToSpace.__call__"}

\* a body of pass returns None
Invoke(name) ==
    IF name \in RaiseBodies THEN Raised("NotImplementedError") ELSE Returned(None)

MaxSplit == 4       \* axis sizes and section counts passed to split

\* pd.split(x, num, axis) for an integer num: num sections of equal size
\* along axis, in order; Paddle raises when num does not divide the size
pd_split(x, num, axis) ==
    LET size == x.shape[axis + 1] IN
    IF size % num # 0 THEN Raised("ValueError")
    ELSE LET part == size \div num
             shape == [x.shape EXCEPT ![axis + 1] = part]
             section(j) ==
                 Tensor(shape,
                        [k \in 1..Prod(shape) |->
                            LET c == [a \in 1..Len(shape) |->
                                        Coord(k, shape, a)
                                            + IF a = axis + 1 THEN (j - 1) * part ELSE 0]
                            IN x.data[1 + Offset(c, x.shape, 1)]])
         IN Returned(Some([j \in 1..num |-> section(j)]))

\* concat(values, axis): return pd.concat(values, axis), the tensors one
\* after the other along axis
concat(values, axis) ==
    LET n == Len(values)
        RECURSIVE Before(_)
        Before(j) == IF j = 0 THEN 0 ELSE values[j].shape[axis + 1] + Before(j - 1)
        shape == [values[1].shape EXCEPT ![axis + 1] = Before(n)]
        at(k) ==
            LET c == [a \in 1..Len(shape) |-> Coord(k, shape, a)]
                j == CHOOSE i \in 1..n : Before(i - 1) <= c[axis + 1] /\ c[axis + 1] < Before(i)
                cj == [c EXCEPT ![axis + 1] = @ - Before(j - 1)]
            IN values[j].data[1 + Offset(cj, values[j].shape, 1)]
    IN Tensor(shape, [k \in 1..Prod(shape) |-> at(k)])

\* split calls pd.split and drops what it returns: the function ends
\* without a return statement
split(value, num_or_size_splits, axis) ==
    LET r == pd_split(value, num_or_size_splits, axis)
    IN IF r.raised # "none" THEN r ELSE Returned(None)

Conv3d_transpose___init__(strides, padding, data_format, dilations) ==
    LET f == preprocess_3d_format(data_format, padding)
    IN IF f.raised # "none" THEN Raised(f.raised)
       ELSE Returned(Some([cls |-> "Conv3d_transpose", strides |-> strides,
                           dilations |-> dilations,
                           data_format |-> Val(f.out).data_format,
                           padding |-> Val(f.out).padding]))

\* Conv3d_transpose.__call__ assigns the result of F.conv3d_transpose to
\* output and ends without a return statement
Conv3d_transpose___call__(self) == Returned(None)

---------------------------------------------------------------------------
(* The Paddle adapter: Pad (paddle_backend.py)                             *)

\* Pad.__init__; paddings is a Python list, held with its nesting depth:
\* the caller's list of [before, after] pairs has depth 2, a list of
\* integers depth 1
Pad___init__(paddings, mode, constant_values) ==
    IF mode \notin {"CONSTANT", "REFLECT", "SYMMETRIC"} THEN Raised("Exception")
    ELSE IF mode = "SYMMETRIC" THEN Raised("NotImplementedError")
    ELSE Returned(Some([cls |-> "Pad", paddings |-> paddings,
                        mode |-> IF mode = "CONSTANT" THEN "constant" ELSE "reflect",
                        constant_values |-> constant_values]))

\* Pad.correct_paddings: the pairs of the spatial axes, last axis first, as
\* one flat list.  The subscripts paddings[i][0] are evaluated left to right,
\* the largest i first: a list too short raises IndexError, an integer
\* element TypeError
correct_paddings(in_shape, paddings, data_format) ==
    LET axes == CASE in_shape = 3 /\ data_format = "NLC" -> <<1>>
                  [] in_shape = 4 /\ data_format = "NHWC" -> <<2, 1>>
                  [] in_shape = 5 /\ data_format = "NDHWC" -> <<3, 2, 1>>
                  [] OTHER -> <<>>
    IN IF axes = <<>> THEN Raised("NotImplementedError")
       ELSE IF axes[1] >= Len(paddings.v) THEN Raised("IndexError")
       ELSE IF paddings.depth < 2 THEN Raised("TypeError")
       ELSE Returned([depth |-> 1,
                      v |-> [k \in 1..(2 * Len(axes)) |->
                                paddings.v[axes[(k + 1) \div 2] + 1][2 - (k % 2)]]])

\* Pad.__call__: the corrected paddings are assigned to self.paddings, then
\* pd.nn.functional.pad pads the spatial axes, the k-th pair of the flat
\* list going to the k-th axis before the channel axis
Pad___call__(self, x) ==
    LET rank == Len(x.shape) IN
    IF rank \notin 3..5
    THEN [raised |-> "NotImplementedError", out |-> None, self |-> self]
    ELSE
    LET data_format == <<"NLC", "NHWC", "NDHWC">>[rank - 2]
        c == correct_paddings(rank, self.paddings, data_format)
    IN
    IF c.raised # "none" THEN [raised |-> c.raised, out |-> None, self |-> self]
    ELSE
    LET pad == c.out.v
        shape == [a \in 1..rank |->
                    IF a \in 2..(rank - 1)
                    THEN x.shape[a] + pad[2 * (rank - a) - 1] + pad[2 * (rank - a)]
                    ELSE x.shape[a]]
    IN [raised |-> "none",
        out |-> Some([shape |-> shape, padded |-> x, pad |-> pad, mode |-> self.mode,
                      value |-> self.constant_values, data_format |-> data_format]),
        self |-> [self EXCEPT !.paddings = c.out]]

---------------------------------------------------------------------------
(* The Paddle adapter: range (paddle_backend.py)                           *)

MaxRange == 4       \* start and limit passed to range

\* range(start, limit, delta): return pd.arange(start, step=delta).  limit
\* is not passed on; pd.arange without an end takes start as the end and
\* counts from 0
range(start, limit, delta) ==
    LET end == start
        first == 0
        n == IF end > first THEN (end - first + delta - 1) \div delta ELSE 0
    IN Returned(Some([i \in 1..n |-> first + (i - 1) * delta]))

---------------------------------------------------------------------------
(* The adapter as a state machine: each step is one call of an adapter     *)
(* function, or the construction or the call of an operation object.  The  *)
(* functions keep no state between calls, so a behaviour is one use of     *)
(* the adapter: one function call, or one construction and one call.       *)

\* the tensors handed to the adapter: every shape of rank 0..MaxAdapterRank
\* with axes of size 1 or 2, holding the distinct values 1, 2, 3, ...
AdapterShapes == UNION {[1..rank -> {1, 2}] : rank \in 0..MaxAdapterRank}
AdapterTensor(shape) == Tensor(shape, [i \in 1..Prod(shape) |-> i])

\* observation of a call: the function, its arguments and its result
Applied(fn, input, r) ==
    Some([fn |-> fn, input |-> input, raised |-> r.raised, out |-> r.out])

\* the last call, and whether it was of fn
LastApplied == Val(applied)
Was(fn) == applied # None /\ LastApplied.fn = fn

\* the construction of an operation object: the object exists when the
\* constructor returns normally
ConstructedAdapter(fn, input, r) ==
    /\ adapter = None
    /\ applied = None
    /\ adapter' = r.out
    /\ applied' = Applied(fn, input, r)
    /\ UNCHANGED layer_vars

\* the call of the object the last step constructed, on the tensor x (None
\* where the tensors do not matter to what the call does)
CalledAdapter(init, fn, x, r) ==
    /\ adapter # None
    /\ Was(init)
    /\ applied' = Applied(fn, [self |-> Val(adapter), args |-> LastApplied.input,
                               x |-> x], r)
    /\ UNCHANGED <<adapter, layer_vars>>

InitAdapter ==
    /\ Init

Apply_nchw_to_nhwc ==
    /\ applied = None
    /\ \E shape \in AdapterShapes :
         LET x == AdapterTensor(shape)
         IN applied' = Applied("nchw_to_nhwc", x, nchw_to_nhwc(x))
    /\ UNCHANGED <<adapter, layer_vars>>

Apply_nhwc_to_nchw ==
    /\ applied = None
    /\ \E shape \in AdapterShapes :
         LET x == AdapterTensor(shape)
         IN applied' = Applied("nhwc_to_nchw", x, nhwc_to_nchw(x))
    /\ UNCHANGED <<adapter, layer_vars>>

\* the padding and data_format arguments tried: the spellings the source
\* lists, other letter cases of them, tokens of another rank, an unknown
\* token, and None
PaddingStrings == {"SAME", "same", "Same", "VALID", "valid", "Valid", "FULL"}
DataFormatStrings ==
    {"channels_last", "channels_first", "Channels_Last",
     "NWC", "nwc", "NLC", "nlc", "NCW", "ncw", "NCL", "ncl",
     "NHWC", "nhwc", "Nhwc", "NCHW", "nchw",
     "NDHWC", "ndhwc", "NCDHW", "ncdhw", "HWC"}
PaddingVals == {None} \cup {Some(s) : s \in PaddingStrings}
DataFormatVals == {None} \cup {Some(s) : s \in DataFormatStrings}

FormatArgs(data_format, padding) == [data_format |-> data_format, padding |-> padding]

Apply_padding_format ==
    /\ applied = None
    /\ \E padding \in PaddingVals :
         applied' = Applied("padding_format", FormatArgs(None, padding),
                            padding_format(padding))
    /\ UNCHANGED <<adapter, layer_vars>>

Apply_preprocess_1d_format ==
    /\ applied = None
    /\ \E data_format \in DataFormatVals, padding \in PaddingVals :
         applied' = Applied("preprocess_1d_format", FormatArgs(data_format, padding),
                            preprocess_1d_format(data_format, padding))
    /\ UNCHANGED <<adapter, layer_vars>>

Apply_preprocess_2d_format ==
    /\ applied = None
    /\ \E data_format \in DataFormatVals, padding \in PaddingVals :
         applied' = Applied("preprocess_2d_format", FormatArgs(data_format, padding),
                            preprocess_2d_format(data_format, padding))
    /\ UNCHANGED <<adapter, layer_vars>>

Apply_preprocess_3d_format ==
    /\ applied = None
    /\ \E data_format \in DataFormatVals, padding \in PaddingVals :
         applied' = Applied("preprocess_3d_format", FormatArgs(data_format, padding),
                            preprocess_3d_format(data_format, padding))
    /\ UNCHANGED <<adapter, layer_vars>>

\* the stride and dilation arguments tried for an input of a rank: the full
\* per-axis sequence (each entry is its own 1-based position) and the
\* spatial entries of the channels-last layout alone; dilations may be None
FullSequence(rank) == [i \in 1..rank |-> i]
SpatialOnly(rank) == [i \in 1..rank - 2 |-> i + 1]
StrideVals(rank) == {Some(FullSequence(rank)), Some(SpatialOnly(rank))}
DilationVals(rank) == {None} \cup StrideVals(rank)
ConvPaddingVals == {Some("SAME"), Some("Same")}

ConvArgs(strides, padding, data_format, dilations, interned) ==
    [strides |-> strides, padding |-> padding, data_format |-> data_format,
     dilations |-> dilations, interned |-> interned]

Construct_Conv2D ==
    \E strides \in StrideVals(4), padding \in ConvPaddingVals,
       data_format \in DataFormatVals, dilations \in DilationVals(4) :
        ConstructedAdapter("Conv2D.__init__",
                           ConvArgs(strides, padding, data_format, dilations, TRUE),
                           Conv2D___init__(strides, padding, data_format, dilations))

Call_Conv2D ==
    CalledAdapter("Conv2D.__init__", "Conv2D.__call__", None, Conv2D___call__(Val(adapter)))

Apply_conv2d ==
    /\ applied = None
    /\ adapter = None
    /\ \E strides \in StrideVals(4), padding \in ConvPaddingVals,
          data_format \in DataFormatVals, dilations \in DilationVals(4) :
         applied' = Applied("conv2d",
                            ConvArgs(strides, padding, data_format, dilations, TRUE),
                            conv2d(strides, padding, data_format, dilations))
    /\ UNCHANGED <<adapter, layer_vars>>

Construct_Conv3D ==
    \E strides \in StrideVals(5), padding \in ConvPaddingVals,
       data_format \in DataFormatVals, dilations \in DilationVals(5),
       interned \in BOOLEAN :
        ConstructedAdapter("Conv3D.__init__",
                           ConvArgs(strides, padding, data_format, dilations, interned),
                           Conv3D___init__(strides, padding, data_format, dilations, interned))

Call_Conv3D ==
    CalledAdapter("Conv3D.__init__", "Conv3D.__call__", None, Conv3D___call__(Val(adapter)))

Apply_conv3d ==
    /\ applied = None
    /\ adapter = None
    /\ \E strides \in StrideVals(5), padding \in ConvPaddingVals,
          data_format \in DataFormatVals, dilations \in DilationVals(5) :
         applied' = Applied("conv3d",
                            ConvArgs(strides, padding, data_format, dilations, TRUE),
                            conv3d(strides, padding, data_format, dilations))
    /\ UNCHANGED <<adapter, layer_vars>>

Construct_MaxPool ==
    \E strides \in StrideVals(4), padding \in ConvPaddingVals, data_format \in DataFormatVals :
        LET ksize == Some(SpatialOnly(4))
        IN ConstructedAdapter("MaxPool.__init__",
                              [ksize |-> ksize, strides |-> strides, padding |-> padding,
                               data_format |-> data_format],
                              MaxPool___init__(ksize, strides, padding, data_format))

Call_MaxPool ==
    CalledAdapter("MaxPool.__init__", "MaxPool.__call__", None, MaxPool___call__(Val(adapter)))

Construct_AvgPool ==
    \E strides \in StrideVals(4), padding \in ConvPaddingVals, data_format \in DataFormatVals :
        LET ksize == Some(SpatialOnly(4))
        IN ConstructedAdapter("AvgPool.__init__",
                              [ksize |-> ksize, strides |-> strides, padding |-> padding,
                               data_format |-> data_format],
                              AvgPool___init__(ksize, strides, padding, data_format))

Call_AvgPool ==
    CalledAdapter("AvgPool.__init__", "AvgPool.__call__", None, AvgPool___call__(Val(adapter)))

Construct_MaxPool3d ==
    \E strides \in StrideVals(5), padding \in ConvPaddingVals, data_format \in DataFormatVals :
        LET ksize == Some(SpatialOnly(5))
        IN ConstructedAdapter("MaxPool3d.__init__",
                              [ksize |-> ksize, strides |-> strides, padding |-> padding,
                               data_format |-> data_format],
                              Pool3d___init__("MaxPool3d", ksize, strides, padding, data_format))

Call_MaxPool3d ==
    CalledAdapter("MaxPool3d.__init__", "MaxPool3d.__call__", None,
                  MaxPool3d___call__(Val(adapter)))

Construct_AvgPool3d ==
    \E strides \in StrideVals(5), padding \in ConvPaddingVals, data_format \in DataFormatVals :
        LET ksize == Some(SpatialOnly(5))
        IN ConstructedAdapter("AvgPool3d.__init__",
                              [ksize |-> ksize, strides |-> strides, padding |-> padding,
                               data_format |-> data_format],
                              Pool3d___init__("AvgPool3d", ksize, strides, padding, data_format))

Call_AvgPool3d ==
    CalledAdapter("AvgPool3d.__init__", "AvgPool3d.__call__", None,
                  AvgPool3d___call__(Val(adapter)))

\* the arguments of the adaptive pooling operators: output_size 1 or 2, and
\* input tensors of the rank of the operator
OutputSizeVals == {1, 2}
TensorsOfRank(rank) == {AdapterTensor(shape) : shape \in [1..rank -> {1, 2}]}

Construct_AdaptiveMeanPool1D ==
    \E output_size \in OutputSizeVals, data_format \in DataFormatVals :
        ConstructedAdapter("AdaptiveMeanPool1D.__init__",
                           [output_size |-> output_size, data_format |-> data_format],
                           AdaptivePool___init__("AdaptiveMeanPool1D",
                                                 preprocess_1d_format(data_format, None),
                                                 output_size))

Call_AdaptiveMeanPool1D ==
    \E input \in TensorsOfRank(3) :
        CalledAdapter("AdaptiveMeanPool1D.__init__", "AdaptiveMeanPool1D.__call__", input,
                      ConvertPoolConvert(Val(adapter), "NLC", "adaptive_avg_pool1d", input))

Construct_AdaptiveMeanPool2D ==
    \E output_size \in OutputSizeVals, data_format \in DataFormatVals :
        ConstructedAdapter("AdaptiveMeanPool2D.__init__",
                           [output_size |-> output_size, data_format |-> data_format],
                           AdaptivePool___init__("AdaptiveMeanPool2D",
                                                 preprocess_2d_format(data_format, None),
                                                 output_size))

Call_AdaptiveMeanPool2D ==
    \E inputs \in TensorsOfRank(4) :
        CalledAdapter("AdaptiveMeanPool2D.__init__", "AdaptiveMeanPool2D.__call__", inputs,
                      PoolWithDataFormat(Val(adapter), "NHWC", "NCHW", "adaptive_avg_pool2d", inputs))

Construct_AdaptiveMeanPool3D ==
    \E output_size \in OutputSizeVals, data_format \in DataFormatVals :
        ConstructedAdapter("AdaptiveMeanPool3D.__init__",
                           [output_size |-> output_size, data_format |-> data_format],
                           AdaptivePool___init__("AdaptiveMeanPool3D",
                                                 preprocess_3d_format(data_format, None),
                                                 output_size))

Call_AdaptiveMeanPool3D ==
    \E inputs \in TensorsOfRank(5) :
        CalledAdapter("AdaptiveMeanPool3D.__init__", "AdaptiveMeanPool3D.__call__", inputs,
                      PoolWithDataFormat(Val(adapter), "NDHWC", "NCDHW", "adaptive_avg_pool3d", inputs))

Construct_AdaptiveMaxPool1D ==
    \E output_size \in OutputSizeVals, data_format \in DataFormatVals :
        ConstructedAdapter("AdaptiveMaxPool1D.__init__",
                           [output_size |-> output_size, data_format |-> data_format],
                           AdaptivePool___init__("AdaptiveMaxPool1D",
                                                 preprocess_1d_format(data_format, None),
                                                 output_size))

Call_AdaptiveMaxPool1D ==
    \E input \in TensorsOfRank(3) :
        CalledAdapter("AdaptiveMaxPool1D.__init__", "AdaptiveMaxPool1D.__call__", input,
                      ConvertPoolConvert(Val(adapter), "NLC", "adaptive_max_pool1d", input))

Construct_AdaptiveMaxPool2D ==
    \E output_size \in OutputSizeVals, data_format \in DataFormatVals :
        ConstructedAdapter("AdaptiveMaxPool2D.__init__",
                           [output_size |-> output_size, data_format |-> data_format],
                           AdaptivePool___init__("AdaptiveMaxPool2D",
                                                 preprocess_2d_format(data_format, None),
                                                 output_size))

Call_AdaptiveMaxPool2D ==
    \E inputs \in TensorsOfRank(4) :
        CalledAdapter("AdaptiveMaxPool2D.__init__", "AdaptiveMaxPool2D.__call__", inputs,
                      ConvertPoolConvert(Val(adapter), "NHWC", "adaptive_max_pool2d", inputs))

Construct_AdaptiveMaxPool3D ==
    \E output_size \in OutputSizeVals, data_format \in DataFormatVals :
        ConstructedAdapter("AdaptiveMaxPool3D.__init__",
                           [output_size |-> output_size, data_format |-> data_format],
                           AdaptivePool___init__("AdaptiveMaxPool3D",
                                                 preprocess_3d_format(data_format, None),
                                                 output_size))

Call_AdaptiveMaxPool3D ==
    \E inputs \in TensorsOfRank(5) :
        CalledAdapter("AdaptiveMaxPool3D.__init__", "AdaptiveMaxPool3D.__call__", inputs,
                      ConvertPoolConvert(Val(adapter), "NDHWC", "adaptive_max_pool3d", inputs))

Construct_BatchNorm ==
    \E data_format \in DataFormatVals :
        ConstructedAdapter("BatchNorm.__init__", FormatArgs(data_format, None),
                           BatchNorm___init__(data_format))

\* called on a tensor of any rank 0..MaxAdapterRank
Call_BatchNorm ==
    \E rank \in 0..MaxAdapterRank :
        LET inputs == AdapterTensor([i \in 1..rank |-> 2])
        IN CalledAdapter("BatchNorm.__init__", "BatchNorm.__call__", inputs,
                         BatchNorm___call__(Val(adapter), inputs))

Invoke_pass_body ==
    /\ applied = None
    /\ adapter = None
    /\ \E name \in PassBodies : applied' = Applied(name, None, Invoke(name))
    /\ UNCHANGED <<adapter, layer_vars>>

Invoke_raise_body ==
    /\ applied = None
    /\ adapter = None
    /\ \E name \in RaiseBodies : applied' = Applied(name, None, Invoke(name))
    /\ UNCHANGED <<adapter, layer_vars>>

Apply_split ==
    /\ applied = None
    /\ adapter = None
    /\ \E shape \in [1..2 -> 1..MaxSplit], num_or_size_splits \in 1..MaxSplit,
          axis \in {0, 1} :
         LET value == AdapterTensor(shape) IN
         applied' = Applied("split",
                            [value |-> value, num_or_size_splits |-> num_or_size_splits,
                             axis |-> axis],
                            split(value, num_or_size_splits, axis))
    /\ UNCHANGED <<adapter, layer_vars>>

Construct_Conv3d_transpose ==
    \E strides \in StrideVals(5), padding \in ConvPaddingVals,
       data_format \in DataFormatVals, dilations \in DilationVals(5) :
        ConstructedAdapter("Conv3d_transpose.__init__",
                           ConvArgs(strides, padding, data_format, dilations, TRUE),
                           Conv3d_transpose___init__(strides, padding, data_format, dilations))

Call_Conv3d_transpose ==
    CalledAdapter("Conv3d_transpose.__init__", "Conv3d_transpose.__call__", None,
                  Conv3d_transpose___call__(Val(adapter)))

\* Pad: paddings for a tensor of rank 3, 4 or 5, none on the batch and
\* channel axes; the object is then called up to MaxCalls times, each call
\* on a tensor of any rank.  A call records the constructor's arguments,
\* its number and the first call's outcome
Construct_Pad ==
    \E rank \in 3..5, mode \in {"CONSTANT", "REFLECT", "SYMMETRIC", "EDGE"} :
        LET paddings == [depth |-> 2,
                         v |-> [i \in 1..rank |->
                                  IF i \in 2..(rank - 1) THEN <<i - 1, i>> ELSE <<0, 0>>]]
        IN ConstructedAdapter("Pad.__init__",
                              [paddings |-> paddings, mode |-> mode, constant_values |-> 0],
                              Pad___init__(paddings, mode, 0))

Call_Pad ==
    /\ adapter # None
    /\ applied # None
    /\ LastApplied.fn \in {"Pad.__init__", "Pad.__call__"}
    /\ LET first_call == LastApplied.fn = "Pad.__init__"
           n == IF first_call THEN 1 ELSE LastApplied.input.n + 1
       IN /\ n <= MaxCalls
          /\ \E rank \in 0..MaxAdapterRank :
               LET x == AdapterTensor([i \in 1..rank |-> 2])
                   r == Pad___call__(Val(adapter), x)
                   before == LastApplied.input
               IN /\ adapter' = Some(r.self)
                  /\ applied' =
                       Applied("Pad.__call__",
                               [self |-> Val(adapter),
                                args |-> IF first_call THEN before ELSE before.args,
                                x |-> x, n |-> n,
                                first |-> IF first_call THEN None
                                          ELSE IF before.n = 1
                                          THEN Some([x |-> before.x,
                                                     raised |-> LastApplied.raised,
                                                     out |-> LastApplied.out])
                                          ELSE before.first],
                               r)
    /\ UNCHANGED layer_vars

\* BiasAdd.__init__(data_format): the token is reduced to channels_first or
\* channels_last; the else branch is `raise (<string>)`, and raising a
\* string is a TypeError
Construct_BiasAdd ==
    \E data_format \in DataFormatVals :
        ConstructedAdapter(
            "BiasAdd.__init__", FormatArgs(data_format, None),
            IF data_format \in {Some("channels_first"), Some("NCL"), Some("NCHW"), Some("NCDHW")}
            THEN Returned(Some([cls |-> "BiasAdd", data_format |-> Some("channels_first")]))
            ELSE IF data_format \in {Some("channels_last"), Some("NLC"), Some("NHWC"),
                                     Some("NDHWC")}
            THEN Returned(Some([cls |-> "BiasAdd", data_format |-> Some("channels_last")]))
            ELSE Raised("TypeError"))

\* Resize.__init__(scale, method, antialias, data_format): an unknown method
\* is answered with `raise (<string>)`; data_format is compared with
\* 'channel_last' and is not stored
Construct_Resize ==
    \E method \in {"nearest", "bilinear", "bicubic"},
       data_format \in DataFormatVals \cup {Some("channel_last")} :
        ConstructedAdapter(
            "Resize.__init__",
            [scale |-> 2, method |-> method, data_format |-> data_format],
            IF method \notin {"nearest", "linear", "bilinear"} THEN Raised("TypeError")
            ELSE IF data_format # Some("channel_last") THEN Raised("Exception")
            ELSE Returned(Some([cls |-> "Resize",
                                method |-> IF method = "bilinear" THEN "linear" ELSE method,
                                antialias |-> FALSE, scale |-> 2])))

Apply_range ==
    /\ applied = None
    /\ adapter = None
    /\ \E start \in 0..MaxRange, limit \in {None} \cup {Some(l) : l \in 0..MaxRange},
          delta \in {1, 2} :
         applied' = Applied("range", [start |-> start, limit |-> limit, delta |-> delta],
                            range(start, limit, delta))
    /\ UNCHANGED <<adapter, layer_vars>>

NextAdapter ==
    \/ Apply_nchw_to_nhwc
    \/ Apply_nhwc_to_nchw
    \/ Apply_padding_format
    \/ Apply_preprocess_1d_format
    \/ Apply_preprocess_2d_format
    \/ Apply_preprocess_3d_format
    \/ Construct_Conv2D
    \/ Call_Conv2D
    \/ Apply_conv2d
    \/ Construct_Conv3D
    \/ Call_Conv3D
    \/ Apply_conv3d
    \/ Construct_MaxPool
    \/ Call_MaxPool
    \/ Construct_AvgPool
    \/ Call_AvgPool
    \/ Construct_MaxPool3d
    \/ Call_MaxPool3d
    \/ Construct_AvgPool3d
    \/ Call_AvgPool3d
    \/ Construct_AdaptiveMeanPool1D
    \/ Call_AdaptiveMeanPool1D
    \/ Construct_AdaptiveMeanPool2D
    \/ Call_AdaptiveMeanPool2D
    \/ Construct_AdaptiveMeanPool3D
    \/ Call_AdaptiveMeanPool3D
    \/ Construct_AdaptiveMaxPool1D
    \/ Call_AdaptiveMaxPool1D
    \/ Construct_AdaptiveMaxPool2D
    \/ Call_AdaptiveMaxPool2D
    \/ Construct_AdaptiveMaxPool3D
    \/ Call_AdaptiveMaxPool3D
    \/ Construct_BatchNorm
    \/ Call_BatchNorm
    \/ Invoke_pass_body
    \/ Invoke_raise_body
    \/ Apply_split
    \/ Construct_Conv3d_transpose
    \/ Call_Conv3d_transpose
    \/ Construct_Pad
    \/ Call_Pad
    \/ Construct_BiasAdd
    \/ Construct_Resize
    \/ Apply_range

SpecAdapter == InitAdapter /\ [][NextAdapter]_vars

---------------------------------------------------------------------------
(* Properties of the adapter *)

\* C11: for every tensor x of rank 3, 4 or 5, nchw_to_nhwc(nhwc_to_nchw(x))
\* is x and nhwc_to_nchw(nchw_to_nhwc(x)) is x: neither conversion raises
\* and converting the result of one with the other gives back x, shape and
\* data.
C11_ConversionRoundTrip ==
    /\ (Was("nhwc_to_nchw") /\ Len(LastApplied.input.shape) \in {3, 4, 5})
         => /\ LastApplied.raised = "none"
            /\ nchw_to_nhwc(Val(LastApplied.out)) = Returned(Some(LastApplied.input))
    /\ (Was("nchw_to_nhwc") /\ Len(LastApplied.input.shape) \in {3, 4, 5})
         => /\ LastApplied.raised = "none"
            /\ nhwc_to_nchw(Val(LastApplied.out)) = Returned(Some(LastApplied.input))

\* a rank-4 tensor with no axis of size 1 has been converted to
\* channels-last, which moved its elements
C11_Witness ==
    /\ Was("nchw_to_nhwc")
    /\ LastApplied.input.shape = <<2, 2, 2, 2>>
    /\ LastApplied.raised = "none"
    /\ Val(LastApplied.out).data # LastApplied.input.data

\* C12: both conversions raise for every input whose rank is outside
\* {3, 4, 5}; for ranks 3, 4, 5 they do not raise and return a tensor of
\* the same rank.
C12_ConversionRank ==
    (Was("nchw_to_nhwc") \/ Was("nhwc_to_nchw")) =>
        IF Len(LastApplied.input.shape) \in {3, 4, 5}
        THEN /\ LastApplied.raised = "none"
             /\ LastApplied.out # None
             /\ Len(Val(LastApplied.out).shape) = Len(LastApplied.input.shape)
        ELSE /\ LastApplied.raised # "none"
             /\ LastApplied.out = None

\* a rank-2 tensor has been refused and a rank-5 tensor converted
C12_Witness ==
    /\ Was("nhwc_to_nchw")
    /\ Len(LastApplied.input.shape) = 2
    /\ LastApplied.raised = "Exception"

C12_WitnessConverted ==
    /\ Was("nhwc_to_nchw")
    /\ Len(LastApplied.input.shape) = 5
    /\ LastApplied.raised = "none"
    /\ Len(Val(LastApplied.out).shape) = 5

\* the canonical tokens: of padding, and of the data format of each rank
PaddingTokens == {"SAME", "VALID"}
FormatTokens(fn) ==
    IF fn = "preprocess_1d_format" THEN {"NLC", "NCL"}
    ELSE IF fn = "preprocess_2d_format" THEN {"NHWC", "NCHW"}
    ELSE {"NDHWC", "NCDHW"}

PreprocessFns == {"preprocess_1d_format", "preprocess_2d_format", "preprocess_3d_format"}
WasPreprocess == applied # None /\ LastApplied.fn \in PreprocessFns

\* C13: padding_format and preprocess_1d/2d/3d_format either raise or
\* return canonical tokens only (SAME or VALID; the rank's channels-last or
\* channels-first token), whatever the input, None included.
C13_CanonicalTokenOrRaise ==
    /\ (Was("padding_format") /\ LastApplied.raised = "none")
         => /\ LastApplied.out # None
            /\ Val(LastApplied.out) \in PaddingTokens
    /\ (WasPreprocess /\ LastApplied.raised = "none")
         => /\ Val(LastApplied.out).data_format # None
            /\ Val(Val(LastApplied.out).data_format) \in FormatTokens(LastApplied.fn)
            /\ Val(LastApplied.out).padding # None
            /\ Val(Val(LastApplied.out).padding) \in PaddingTokens

\* spellings that differ only in letter case
CaseFamilies ==
    {{"SAME", "same", "Same"}, {"VALID", "valid", "Valid"},
     {"channels_last", "Channels_Last"},
     {"NWC", "nwc"}, {"NLC", "nlc"}, {"NCW", "ncw"}, {"NCL", "ncl"},
     {"NHWC", "nhwc", "Nhwc"}, {"NCHW", "nchw"},
     {"NDHWC", "ndhwc"}, {"NCDHW", "ncdhw"}}
SameButCase(s, t) == \E F \in CaseFamilies : s \in F /\ t \in F

Preprocess(fn, data_format, padding) ==
    IF fn = "preprocess_1d_format" THEN preprocess_1d_format(data_format, padding)
    ELSE IF fn = "preprocess_2d_format" THEN preprocess_2d_format(data_format, padding)
    ELSE preprocess_3d_format(data_format, padding)

\* C14: normalization is case-insensitive: when a padding string, or a
\* data-format string of some rank, is normalized, every string that differs
\* from it only in letter case is normalized to the same canonical token.
C14_CaseInsensitive ==
    /\ (Was("padding_format") /\ LastApplied.raised = "none"
          /\ LastApplied.input.padding # None)
         => \A t \in PaddingStrings :
              SameButCase(Val(LastApplied.input.padding), t)
                => LET r == padding_format(Some(t))
                   IN r.raised = "none" /\ r.out = LastApplied.out
    /\ (WasPreprocess /\ LastApplied.raised = "none"
          /\ LastApplied.input.data_format # None)
         => \A t \in DataFormatStrings :
              SameButCase(Val(LastApplied.input.data_format), t)
                => LET r == Preprocess(LastApplied.fn, Some(t),
                                       LastApplied.input.padding)
                   IN r.raised = "none" /\ r.out = LastApplied.out

\* the convolution constructors, calls and functions with the rank of their
\* input and the preprocess function they normalise with
ConvCtors == {"Conv2D.__init__", "Conv3D.__init__"}
ConvCalls == {"Conv2D.__call__", "Conv3D.__call__"}
ConvFunctions == {"conv2d", "conv3d"}
ConvRank(fn) == IF fn \in {"Conv2D.__init__", "Conv2D.__call__", "conv2d"} THEN 4 ELSE 5
ConvPreprocess(fn) == IF ConvRank(fn) = 4 THEN "preprocess_2d_format" ELSE "preprocess_3d_format"

\* the constructor was given a data_format token and a padding that its
\* preprocess function accepts
TokensAccepted(fn, a) ==
    /\ a.data_format # None
    /\ Preprocess(ConvPreprocess(fn), a.data_format, a.padding).raised = "none"

\* the canonical token a data_format argument configures
Configured(fn, a) == Val(Preprocess(ConvPreprocess(fn), a.data_format, a.padding).out).data_format

\* the spatial entries of a full per-axis sequence: positions 1..k
\* (0-based) under channels-last, 2..k+1 under channels-first
LayoutSpatial(seq, token) ==
    IF token \in {Some("NLC"), Some("NHWC"), Some("NDHWC")}
    THEN SubSeq(seq, 2, Len(seq) - 1)
    ELSE SubSeq(seq, 3, Len(seq))

StoredStride(self) == IF self.cls = "Conv3D" THEN self._strides ELSE self._stride
StoredDilation(self) == IF self.cls = "Conv3D" THEN self._dilations ELSE self._dilation

FullLength(fn, a) ==
    /\ a.strides = Some(FullSequence(ConvRank(fn)))
    /\ a.dilations = Some(FullSequence(ConvRank(fn)))

\* C15: Conv2D and Conv3D constructed with full-length stride and dilation
\* sequences and any data_format token the constructor accepts (the
\* synonyms channels_last and channels_first included) store the spatial
\* stride and dilation of the configured layout, and a later call finds
\* them defined.
C15_ConvStoresLayoutSpatial ==
    /\ \A fn \in ConvCtors :
         (Was(fn) /\ LastApplied.raised = "none"
            /\ TokensAccepted(fn, LastApplied.input) /\ FullLength(fn, LastApplied.input))
           => LET self == Val(LastApplied.out)
                  token == Configured(fn, LastApplied.input)
              IN /\ StoredStride(self) = Some(LayoutSpatial(Val(LastApplied.input.strides), token))
                 /\ StoredDilation(self) = Some(LayoutSpatial(Val(LastApplied.input.dilations), token))
    /\ \A fn \in ConvCalls :
         (Was(fn) /\ TokensAccepted(fn, LastApplied.input.args)
            /\ FullLength(fn, LastApplied.input.args))
           => LastApplied.raised = "none"

\* the spatial values a stride or dilation argument stands for: those of
\* the layout for a full sequence, the sequence itself when spatial-only
SpatialValues(fn, seq, token) ==
    IF Len(seq) = ConvRank(fn) THEN LayoutSpatial(seq, token) ELSE seq

\* the stride and dilation a constructor stored or a function passed on
UsedStride(fn, out) == IF fn \in ConvCtors THEN StoredStride(out) ELSE out.stride
UsedDilation(fn, out) == IF fn \in ConvCtors THEN StoredDilation(out) ELSE out.dilation

\* C16: Conv2D, Conv3D, conv2d and conv3d accept stride and dilation as
\* full per-axis sequences or as spatial-only sequences and use the same
\* spatial values either way; a dilation of None is accepted too.
C16_ConvAcceptsBothForms ==
    \A fn \in ConvCtors \cup ConvFunctions :
        (Was(fn) /\ TokensAccepted(fn, LastApplied.input))
          => /\ LastApplied.raised = "none"
             /\ LET token == Configured(fn, LastApplied.input)
                    out == Val(LastApplied.out)
                IN /\ UsedStride(fn, out)
                        = Some(SpatialValues(fn, Val(LastApplied.input.strides), token))
                   /\ LastApplied.input.dilations # None
                        => UsedDilation(fn, out)
                             = Some(SpatialValues(fn, Val(LastApplied.input.dilations), token))

PoolCtors == {"MaxPool.__init__", "AvgPool.__init__", "MaxPool3d.__init__", "AvgPool3d.__init__"}
PoolCalls == {"MaxPool.__call__", "AvgPool.__call__", "MaxPool3d.__call__", "AvgPool3d.__call__"}
PoolStride(self) == IF self.cls \in {"MaxPool", "AvgPool"} THEN self._stride ELSE self.strides

\* C17: MaxPool, AvgPool, MaxPool3d and AvgPool3d follow the layout-offset
\* rule of convolution: whenever the constructor returns without error,
\* for any data_format value and the default None too, the spatial stride
\* is set from the indices of the layout, and a call of the object does not
\* fail on a missing stride.
C17_PoolStrideAlwaysSet ==
    /\ \A fn \in PoolCtors :
         (Was(fn) /\ LastApplied.raised = "none")
           => LET self == Val(LastApplied.out)
              IN /\ PoolStride(self) # Unset
                 /\ PoolStride(self)
                      = Some(LayoutSpatial(Val(LastApplied.input.strides), self.data_format))
    /\ \A fn \in PoolCalls :
         Was(fn) => LastApplied.raised # "AttributeError"

\* the adaptive pooling operators: all six, and the two that pass their
\* data_format on to a primitive that takes either layout
AdaptiveCalls ==
    {"AdaptiveMeanPool1D.__call__", "AdaptiveMeanPool2D.__call__", "AdaptiveMeanPool3D.__call__",
     "AdaptiveMaxPool1D.__call__", "AdaptiveMaxPool2D.__call__", "AdaptiveMaxPool3D.__call__"}
LayoutPassedOn == {"AdaptiveMeanPool2D.__call__", "AdaptiveMeanPool3D.__call__"}

ChannelsLast(self) == self.data_format \in {Some("NLC"), Some("NHWC"), Some("NDHWC")}
ChannelsFirst(self) == self.data_format \in {Some("NCL"), Some("NCHW"), Some("NCDHW")}

\* the primitive of an operator, and the pooling of x in its own layout
PrimitiveOf(self) ==
    LET nd == IF self.cls \in {"AdaptiveMeanPool1D", "AdaptiveMaxPool1D"} THEN "1d"
              ELSE IF self.cls \in {"AdaptiveMeanPool2D", "AdaptiveMaxPool2D"} THEN "2d"
              ELSE "3d"
        kind == IF self.cls \in {"AdaptiveMeanPool1D", "AdaptiveMeanPool2D", "AdaptiveMeanPool3D"}
                THEN "adaptive_avg_pool" ELSE "adaptive_max_pool"
    IN kind \o nd
PooledInLayout(self, x) ==
    F_adaptive_pool(PrimitiveOf(self), x, self.output_size, ChannelsLast(self))

\* the three steps of a conversion around the primitive
ThreeSteps(self) == <<"nhwc_to_nchw", PrimitiveOf(self), "nchw_to_nhwc">>

\* C18 as stated: each of the six adaptive pooling operators configured
\* channels-last converts the input to channels-first, pools, and converts
\* the result back, in this order, the output being laid out as the input;
\* configured channels-first it converts nothing.
C18_AllConvertPoolConvert ==
    \A fn \in AdaptiveCalls :
        Was(fn) =>
            LET self == LastApplied.input.self
            IN /\ ChannelsLast(self)
                    => /\ LastApplied.raised = "none"
                       /\ Val(LastApplied.out).steps = ThreeSteps(self)
                       /\ Val(LastApplied.out).output = PooledInLayout(self, LastApplied.input.x)
               /\ ChannelsFirst(self)
                    => /\ LastApplied.raised = "none"
                       /\ Val(LastApplied.out).steps = <<PrimitiveOf(self)>>
                       /\ Val(LastApplied.out).output = PooledInLayout(self, LastApplied.input.x)

\* C18 amended: AdaptiveMeanPool1D and AdaptiveMaxPool1D/2D/3D configured
\* channels-last convert, pool and convert back in this order;
\* AdaptiveMeanPool2D/3D convert nothing and give their data_format to the
\* primitive; all six return the input pooled in the configured layout, and
\* configured channels-first none converts.
C18_ConvertOrPassLayout ==
    \A fn \in AdaptiveCalls :
        Was(fn) =>
            LET self == LastApplied.input.self
            IN (ChannelsLast(self) \/ ChannelsFirst(self))
                 => /\ LastApplied.raised = "none"
                    /\ Val(LastApplied.out).steps
                         = IF ChannelsLast(self) /\ fn \notin LayoutPassedOn
                           THEN ThreeSteps(self) ELSE <<PrimitiveOf(self)>>
                    /\ Val(LastApplied.out).output = PooledInLayout(self, LastApplied.input.x)

\* a channels-last AdaptiveMaxPool2D has pooled a 2x2x2x2 input to 1x1 per
\* channel by converting around the primitive
C18_Witness ==
    /\ Was("AdaptiveMaxPool2D.__call__")
    /\ LastApplied.input.self.data_format = Some("NHWC")
    /\ LastApplied.input.self.output_size = 1
    /\ LastApplied.input.x.shape = <<2, 2, 2, 2>>
    /\ LastApplied.raised = "none"
    /\ Val(LastApplied.out).steps = <<"nhwc_to_nchw", "adaptive_max_pool2d", "nchw_to_nhwc">>
    /\ Val(LastApplied.out).output.shape = <<2, 1, 1, 2>>

\* C19: BatchNorm.channel_format is a total lookup: rank 2 gives NC for any
\* layout, ranks 3, 4, 5 give NLC, NHWC, NDHWC under channels_last and NCL,
\* NCHW, NCDHW under channels_first, and for no input rank and no
\* configured data_format is a missing value (None) passed to the
\* normalisation primitive.
C19_ChannelFormatTotal ==
    Was("BatchNorm.__call__") =>
        LET self == LastApplied.input.self
            rank == Len(LastApplied.input.x.shape)
            passed == Val(LastApplied.out).data_format
        IN /\ passed # None
           /\ rank = 2 => passed = Some("NC")
           /\ (rank \in 3..5 /\ self.data_format = Some("channels_last"))
                => passed = Some(<<"NLC", "NHWC", "NDHWC">>[rank - 2])
           /\ (rank \in 3..5 /\ self.data_format = Some("channels_first"))
                => passed = Some(<<"NCL", "NCHW", "NCDHW">>[rank - 2])

\* the operations of the adapter that have no backend implementation
Unimplemented == PassBodies \cup RaiseBodies \cup {"split", "Conv3d_transpose.__call__"}

\* C20: every operation without a backend implementation raises a
\* not-implemented error when it is invoked; none returns normally with an
\* empty or missing result.
C20_UnimplementedRaises ==
    \A fn \in Unimplemented :
        Was(fn) => LastApplied.raised = "NotImplementedError"

\* C21: split(value, n, axis) with an integer n that divides the size of
\* value along axis returns n tensors of equal size along that axis, and
\* concat of the returned tensors, in order and along the same axis, is value.
C21_SplitConcatRoundTrip ==
    Was("split") =>
        LET a == LastApplied.input
            n == a.num_or_size_splits
            size == a.value.shape[a.axis + 1]
            out == LastApplied.out
        IN size % n = 0 =>
            /\ LastApplied.raised = "none"
            /\ out # None
            /\ Len(Val(out)) = n
            /\ \A j \in 1..n : Val(out)[j].shape[a.axis + 1] = size \div n
            /\ concat(Val(out), a.axis) = a.value

\* the channel count a build of the layer was given: in_channels of the
\* constructor in the eager build, the last axis of the input in the lazy build
BuildChannels ==
    IF call.op = "__init__" THEN Val(args.in_channels) ELSE Last(call.shape)

\* C22: SubpixelConv2d.build raises an exception whenever the input channel
\* count is not an exact multiple of scale^2, in the eager build of the
\* constructor and in the lazy build of the first forward call alike; when
\* it returns, n_out_channels is exactly in_channels / scale^2.
C22_Subpixel2dBuildChecksChannels ==
    (layer.cls = "SubpixelConv2d" /\ call.build_called) =>
        LET q == layer.scale * layer.scale IN
        /\ layer.in_channels = Some(BuildChannels)
        /\ BuildChannels % q # 0 =>
              /\ call.raised = "Exception"
              /\ ~call.build_returned
              /\ ~layer._built
        /\ call.build_returned =>
              /\ layer.n_out_channels # None
              /\ Val(layer.n_out_channels) * q = BuildChannels

\* a lazy build refused: scale 2 on an input of 5 channels
C22_Witness ==
    /\ layer.cls = "SubpixelConv2d"
    /\ call.op = "forward"
    /\ call.build_called
    /\ layer.scale = 2
    /\ Last(call.shape) = 5
    /\ call.raised = "Exception"

\* an eager build refused, and a build that returned with 4 channels
C22_WitnessEager ==
    /\ layer.cls = "SubpixelConv2d"
    /\ call.op = "__init__"
    /\ layer.scale = 2
    /\ args.in_channels = Some(5)
    /\ call.raised = "Exception"

C22_WitnessBuilt ==
    /\ layer.cls = "SubpixelConv2d"
    /\ call.build_returned
    /\ layer.scale = 2
    /\ BuildChannels = 4
    /\ layer.n_out_channels = Some(1)

\* C23: SubpixelConv1d.build raises an exception whenever the input channel
\* count is not an exact multiple of scale; it never returns with
\* out_channels a truncated quotient.
C23_Subpixel1dBuildChecksChannels ==
    (layer.cls = "SubpixelConv1d" /\ call.build_called) =>
        /\ BuildChannels % layer.scale # 0 => ~call.build_returned
        /\ call.build_returned =>
              Val(layer.out_channels) * layer.scale = BuildChannels

\* C24: SubpixelConv2d.forward on an input of shape (N, H, W, C) with
\* C = scale^2 * k, k >= 1, returns an output of shape
\* (N, scale*H, scale*W, k).
C24_Subpixel2dOutputShape ==
    (layer.cls = "SubpixelConv2d" /\ call.op = "forward" /\ Len(call.shape) = 4) =>
        LET r == layer.scale
            C == call.shape[4]
        IN \A k \in 1..MaxChannels :
            (C = r * r * k /\ layer.n_out_channels = Some(k)) =>
                /\ call.raised = "none"
                /\ call.outputs # None
                /\ Val(call.outputs).shape
                     = <<call.shape[1], r * call.shape[2], r * call.shape[3], k>>

\* C25: applying an operation object leaves its configuration unchanged.
\* After any number of calls of a Pad its paddings, mode and constant value
\* are those the constructor set, and a later call on a tensor of the shape
\* of the first call raises and returns what the first call did.
C25_CallKeepsConfiguration ==
    Was("Pad.__call__") =>
        LET i == LastApplied.input
            self == Val(adapter)
        IN /\ self.paddings = i.args.paddings
           /\ self.mode = i.self.mode
           /\ self.constant_values = i.args.constant_values
           /\ (i.first # None /\ Val(i.first).x.shape = i.x.shape) =>
                 /\ LastApplied.raised = Val(i.first).raised
                 /\ LastApplied.out = Val(i.first).out

\* the other operation objects: a call does not assign to self
C25_OtherObjectsKeepConfiguration ==
    [][(adapter # None /\ Val(adapter).cls # "Pad") => adapter' = adapter]_vars

CallerMistake ==
    /\ applied # None
    /\ \/ /\ LastApplied.fn = "Pad.__init__"
          /\ LastApplied.input.mode \notin {"CONSTANT", "REFLECT", "SYMMETRIC"}
       \/ /\ LastApplied.fn = "Pad.__call__"
          /\ Len(LastApplied.input.x.shape) \notin 3..5
       \/ /\ LastApplied.fn \in {"nchw_to_nhwc", "nhwc_to_nchw"}
          /\ Len(LastApplied.input.shape) \notin 3..5
       \/ /\ LastApplied.fn \in PreprocessFns \cup {"padding_format"}
          /\ \/ LastApplied.input.padding = Some("FULL")
             \/ LastApplied.input.data_format = Some("HWC")

\* the last call was of an operation the backend does not implement
CapabilityGap ==
    /\ applied # None
    /\ \/ LastApplied.fn \in PassBodies \cup RaiseBodies
       \/ /\ LastApplied.fn = "Pad.__init__"
          /\ LastApplied.input.mode = "SYMMETRIC"

\* C27: the not-implemented signal is kept for backend capability gaps.  A
\* caller mistake is never reported with NotImplementedError, and a missing
\* backend implementation is never reported as a configuration error.
C27_NotImplementedOnlyForGaps ==
    /\ CallerMistake => LastApplied.raised # "NotImplementedError"
    /\ CapabilityGap => LastApplied.raised \notin {"Exception", "ValueError"}

\* the constructors that take a data_format, the canonical tokens that
\* apply to each, and the default of each
FormatCtors ==
    {"BiasAdd.__init__", "BatchNorm.__init__", "Resize.__init__"}
        \cup ConvCtors \cup PoolCtors
AnyRankCtors == {"BiasAdd.__init__", "BatchNorm.__init__"}
Ctors3d == {"Conv3D.__init__", "MaxPool3d.__init__", "AvgPool3d.__init__"}

Vocabulary(fn) ==
    {"channels_last", "channels_first"}
        \cup IF fn \in AnyRankCtors
             THEN {"NLC", "NCL", "NHWC", "NCHW", "NDHWC", "NCDHW"}
             ELSE IF fn \in Ctors3d THEN {"NDHWC", "NCDHW"} ELSE {"NHWC", "NCHW"}

DefaultFormat(fn) ==
    IF fn \in PoolCtors THEN None
    ELSE IF fn = "Conv2D.__init__" THEN Some("NHWC")
    ELSE IF fn = "Conv3D.__init__" THEN Some("NDHWC")
    ELSE Some("channels_last")

\* the arguments other than data_format are ones the constructor accepts
OtherArgsAccepted(fn, a) ==
    /\ fn \in ConvCtors \cup PoolCtors =>
         /\ a.padding = Some("SAME")
         /\ a.strides = Some(FullSequence(IF fn \in Ctors3d THEN 5 ELSE 4))
    /\ fn \in ConvCtors => FullLength(fn, a)
    /\ fn = "Resize.__init__" => a.method = "nearest"

\* C28: every operation constructor that takes a data_format accepts each
\* canonical token that applies to it, channels_last and channels_first
\* included, and its own default, rejects every other value with an error
\* (other spellings of a token apart), and stores no unrecognized value.
C28_ConstructorsValidateFormat ==
    (applied # None /\ LastApplied.fn \in FormatCtors) =>
        LET fn == LastApplied.fn
            a == LastApplied.input
            d == a.data_format
            known == d # None /\ Val(d) \in Vocabulary(fn)
            synonym == d \in {Some("NWC"), Some("NCW"), Some("nhwc"), Some("nchw")}
        IN /\ ((known \/ d = DefaultFormat(fn)) /\ OtherArgsAccepted(fn, a)) =>
                 LastApplied.raised = "none"
           /\ (~known /\ ~synonym /\ d # DefaultFormat(fn)) => LastApplied.raised # "none"
           /\ (LastApplied.raised = "none" /\ "data_format" \in DOMAIN Val(adapter)) =>
                 LET stored == Val(adapter).data_format
                 IN \/ stored # None /\ Val(stored) \in Vocabulary(fn)
                    \/ stored = None /\ DefaultFormat(fn) = None

\* C29: range(start, limit, delta) with a limit returns start, start+delta,
\* ..., all the values strictly below limit; without a limit it returns
\* 0, delta, ..., all the values strictly below start.
C29_RangeSequence ==
    Was("range") =>
        LET a == LastApplied.input
            first == IF a.limit # None THEN a.start ELSE 0
            bound == IF a.limit # None THEN Val(a.limit) ELSE a.start
        IN /\ LastApplied.raised = "none"
           /\ LastApplied.out # None
           /\ LET out == Val(LastApplied.out)
              IN /\ \A i \in 1..Len(out) :
                      out[i] = first + (i - 1) * a.delta /\ out[i] < bound
                 /\ first + Len(out) * a.delta >= bound

\* C30: in every reachable state of a layer, _forward_state implies _built,
\* and with it the parameters and cached operations that forward uses
\* without a further test; a forward call that failed inside build sets
\* neither flag.
C30_ForwardStateImpliesBuilt ==
    /\ layer._forward_state =>
          /\ layer._built
          /\ layer.cls = "DropconnectDense" =>
                /\ layer.W # None
                /\ layer.dropout # None
                /\ layer.matmul # None
                /\ layer.bias_add # None
          /\ layer.cls = "SubpixelConv1d" =>
                layer.transpose # None /\ layer.batch_to_space # None
          /\ layer.cls = "SubpixelConv2d" => layer.depth_to_space # None
    /\ (call.op = "forward" /\ call.build_called /\ ~call.build_returned) =>
          ~layer._forward_state

\* a first forward call failed inside build, and a later one built the
\* layer and set the flag
C30_Witness ==
    /\ hist.n_forward = 2
    /\ hist.build_calls = 2
    /\ hist.build_done = 1
    /\ layer._forward_state

\* a forward call that failed inside build
C30_WitnessFailed ==
    /\ call.op = "forward"
    /\ call.build_called
    /\ ~call.build_returned
    /\ ~layer._built

====
